---- MODULE Spec2Model ----
(***************************************************************************)
(* Model of the Weatherlink integration: the payload normalizer            *)
(* (_preprocess), the fetch cycle around it (async_fetch driven by the     *)
(* update coordinator), the setup sequence and the entity availability     *)
(* check.                                                                  *)
(*                                                                         *)
(* Values.  A JSON/Python value is modelled as a tuple of integers:        *)
(*   <<>>      is None (JSON null),                                        *)
(*   <<n, d>>  is the number n/d in lowest terms (d > 0).                  *)
(* A mapping (dict) is a function whose DOMAIN is the set of its keys, so  *)
(* "key absent" and "key present with value None" are different things,    *)
(* as they are in the source.                                              *)
(***************************************************************************)
EXTENDS Integers, Sequences, FiniteSets, TLC

VARIABLES
    api_version,          \* entry.data[CONF_API_VERSION]
    sensors_metadata,     \* hass.data[DOMAIN][entry_id]["sensors_metadata"]
    primary_tx_id,        \* hass.data[DOMAIN][entry_id]["primary_tx_id"]
    has_coordinator,      \* "coordinator" in hass.data[DOMAIN][entry_id]
    data,                 \* coordinator.data: the published snapshot
    last_update_success,  \* coordinator.last_update_success
    last_exception,       \* coordinator.last_exception (its kind)
    current,              \* hass.data[DOMAIN][entry_id]["current"]: raw payload
    requests,             \* async_fetch calls awaiting the network: [by, started]
    pc,                   \* position of async_setup_entry / entry life cycle
    platform_pc,          \* position of each platform's async_setup_entry
    entities,             \* the WLSensor entities added: << tx_id, key >>
    timer,                \* due time of the scheduled refresh (a set, empty if none)
    now,                  \* the clock, in seconds
    avail,                \* the last value read from WLSensor.available
    native                \* the last value read from WLSensor.native_value

vars == << api_version, sensors_metadata, primary_tx_id, has_coordinator,
           data, last_update_success, last_exception, current, requests, pc,
           platform_pc, entities, timer, now, avail, native >>

----------------------------------------------------------------------------
(* Values *)

None == <<>>

Abs(n) == IF n < 0 THEN -n ELSE n

RECURSIVE GCD(_, _)
GCD(a, b) == IF b = 0 THEN a ELSE GCD(b, a % b)

\* the number n/d (d > 0) in lowest terms
Rat(n, d) == LET g == GCD(Abs(n), d) IN << n \div g, d \div g >>

Num(n) == << n, 1 >>

IsNone(v) == v = None

\* Scale as a temperature conversion: 32 is subtracted before scaling
ScaleWithOffset(x, n, d) == Rat((x[1] - 32 * x[2]) * n, x[2] * d)

\* x * (n/d) for a number x
Scale(x, n, d) == Rat(x[1] * n, x[2] * d)

\* dict helpers
Has(d, k) == k \in DOMAIN d

Put(d, k, v) == [x \in (DOMAIN d) \cup {k} |-> IF x = k THEN v ELSE d[x]]

Without(d, k) == [x \in (DOMAIN d) \ {k} |-> d[x]]

EmptyDict == [x \in {} |-> None]

----------------------------------------------------------------------------
(* The mapping rules of _preprocess (API v2).                              *)
(* A step <<op, src, dst>> is one assignment of the source:                *)
(*   "sensor"  outdata[tx][dst] = sensor[src]                              *)
(*   "idx"     outdata[tx][dst] = data[src]             KeyError if absent *)
(*   "get"     outdata[tx][dst] = data.get(src)                            *)
(*   "get0"    outdata[tx][dst] = data.get(src, 0.0)                       *)
(*   "zero"    if (xx := data.get(src, 0.0)) is None: xx = 0.0; store xx   *)
(*   "nn"      if (xx := data.get(src, 0.0)) is not None: store xx         *)
(*   "solar"   as "nn", storing xx * 11.622                                *)
(*   "dd59"    as "nn", storing xx * 5 / 9                                 *)
(*   "trend"   if (xx := data.get(src, 0)) is not None: xx = xx / 1000;    *)
(*             store xx                                                    *)

SENSOR_TYPE_VUE_AND_VANTAGE_PRO ==
    {23, 24, 27, 28, 33, 34, 37, 43, 44, 45, 46, 48, 49, 50, 51,
     76, 77, 78, 79, 80, 81, 82, 83, 84, 85, 87}

SENSOR_TYPE_AIRLINK == {323, 326}

\* for numb in range(1, n + 1): outdata[tx_id][f"{dst}_{numb}"] = data[f"{src}_{numb}"]
Family(src, dst, n) ==
    [i \in 1..n |-> << "idx", src \o "_" \o ToString(i), dst \o "_" \o ToString(i) >>]

HeaderSteps ==
    << << "sensor", "sensor_type", "SENSOR_TYPE" >>,
       << "sensor", "data_structure_type", "DATA_STRUCTURE" >>,
       << "idx", "ts", "TIMESTAMP" >> >>

\* console, data structure 10
StepsDS10 ==
    HeaderSteps \o
    << << "idx", "temp", "TEMP_OUT" >>,
       << "idx", "hum", "HUM_OUT" >>,
       << "idx", "wind_speed_last", "WIND_MPH" >>,
       << "idx", "wind_speed_avg_last_1_min", "WIND_MPH_1M" >>,
       << "idx", "wind_speed_avg_last_2_min", "WIND_MPH_2M" >>,
       << "idx", "wind_speed_avg_last_10_min", "WIND_MPH_10M" >>,
       << "idx", "wind_speed_hi_last_10_min", "WIND_GUST_MPH" >>,
       << "idx", "wind_speed_hi_last_2_min", "WIND_GUST_MPH_2M" >>,
       << "idx", "wind_dir_last", "WIND_DIR" >>,
       << "idx", "wind_dir_scalar_avg_last_2_min", "WIND_DIR_2M" >>,
       << "idx", "wind_dir_scalar_avg_last_10_min", "WIND_DIR_10M" >>,
       << "idx", "wind_dir_at_hi_speed_last_10_min", "WIND_GUST_DIR" >>,
       << "idx", "wind_dir_at_hi_speed_last_2_min", "WIND_GUST_DIR_2M" >>,
       << "idx", "dew_point", "DEWPOINT" >>,
       << "idx", "heat_index", "HEAT_INDEX" >>,
       << "idx", "thw_index", "THW_INDEX" >>,
       << "idx", "thsw_index", "THSW_INDEX" >>,
       << "idx", "wet_bulb", "WET_BULB" >>,
       << "idx", "wind_chill", "WIND_CHILL" >>,
       << "get0", "rainfall_daily_in", "RAIN_DAY" >>,
       << "zero", "rainfall_last_15_min_in", "RAIN_DAY_15M" >>,
       << "zero", "rainfall_last_60_min_in", "RAIN_DAY_60M" >>,
       << "zero", "rainfall_last_24_hr_in", "RAIN_DAY_24H" >>,
       << "zero", "rain_storm_in", "RAIN_STORM" >>,
       << "get", "rain_storm_start_time", "RAIN_STORM_START" >>,
       << "zero", "rain_storm_last_in", "RAIN_STORM_LAST" >>,
       << "get", "rain_storm_last_start_at", "RAIN_STORM_LAST_START" >>,
       << "get", "rain_storm_last_end_at", "RAIN_STORM_LAST_END" >>,
       << "idx", "rain_rate_last_in", "RAIN_RATE" >>,
       << "idx", "rain_rate_hi_in", "RAIN_RATE_HI" >>,
       << "idx", "rain_rate_hi_last_15_min_in", "RAIN_RATE_HI_15M" >>,
       << "idx", "rainfall_monthly_in", "RAIN_MONTH" >>,
       << "idx", "rainfall_year_in", "RAIN_YEAR" >>,
       << "idx", "trans_battery_flag", "TRANS_BATTERY_FLAG" >>,
       << "idx", "uv_index", "UV_INDEX" >>,
       << "idx", "solar_rad", "SOLAR_RADIATION" >>,
       << "get", "et_day", "ET_DAY" >>,
       << "get", "et_month", "ET_MONTH" >>,
       << "get", "et_year", "ET_YEAR" >>,
       << "get", "rx_state", "RX_STATE" >> >>

\* console, data structure 2
StepsDS2 ==
    HeaderSteps \o
    << << "idx", "temp_out", "TEMP_OUT" >>,
       << "idx", "temp_in", "TEMP_IN" >> >> \o
    Family("temp_extra", "TEMP_EXTRA", 7) \o
    Family("temp_leaf", "TEMP_LEAF", 4) \o
    Family("temp_soil", "TEMP_SOIL", 4) \o
    Family("hum_extra", "HUM_EXTRA", 7) \o
    Family("moist_soil", "MOIST_SOIL", 4) \o
    Family("wet_leaf", "WET_LEAF", 4) \o
    << << "idx", "bar", "BAR_SEA_LEVEL" >>,
       << "trend", "bar_trend", "BAR_TREND" >>,
       << "idx", "hum_out", "HUM_OUT" >>,
       << "idx", "hum_in", "HUM_IN" >>,
       << "idx", "wind_speed", "WIND_MPH" >>,
       << "idx", "wind_gust_10_min", "WIND_GUST_MPH" >>,
       << "idx", "wind_dir", "WIND_DIR" >>,
       << "idx", "dew_point", "DEWPOINT" >>,
       << "idx", "heat_index", "HEAT_INDEX" >>,
       << "idx", "wind_chill", "WIND_CHILL" >>,
       << "get", "rain_day_in", "RAIN_DAY" >>,
       << "zero", "rain_storm_in", "RAIN_STORM" >>,
       << "get", "rain_storm_start_time", "RAIN_STORM_START" >>,
       << "idx", "rain_rate_in", "RAIN_RATE" >>,
       << "idx", "rain_month_in", "RAIN_MONTH" >>,
       << "idx", "rain_year_in", "RAIN_YEAR" >>,
       << "idx", "solar_rad", "SOLAR_RADIATION" >>,
       << "idx", "uv", "UV_INDEX" >>,
       << "idx", "et_day", "ET_DAY" >>,
       << "idx", "et_month", "ET_MONTH" >>,
       << "idx", "et_year", "ET_YEAR" >> >>

\* console, data structure 23
StepsDS23 ==
    HeaderSteps \o
    << << "idx", "temp", "TEMP_OUT" >>,
       << "idx", "hum", "HUM_OUT" >>,
       << "idx", "wind_speed_last", "WIND_MPH" >>,
       << "zero", "wind_speed_hi_last_10_min", "WIND_GUST_MPH" >>,
       << "idx", "wind_dir_last", "WIND_DIR" >>,
       << "zero", "wind_speed_avg_last_1_min", "WIND_MPH_1M" >>,
       << "zero", "wind_speed_avg_last_2_min", "WIND_MPH_2M" >>,
       << "zero", "wind_speed_avg_last_10_min", "WIND_MPH_10M" >>,
       << "zero", "wind_speed_hi_last_2_min", "WIND_GUST_MPH_2M" >>,
       << "zero", "wind_dir_scalar_avg_last_2_min", "WIND_DIR_2M" >>,
       << "zero", "wind_dir_scalar_avg_last_10_min", "WIND_DIR_10M" >>,
       << "zero", "wind_dir_at_hi_speed_last_10_min", "WIND_GUST_DIR" >>,
       << "zero", "wind_dir_at_hi_speed_last_2_min", "WIND_GUST_DIR_2M" >>,
       << "idx", "dew_point", "DEWPOINT" >>,
       << "idx", "heat_index", "HEAT_INDEX" >>,
       << "idx", "thw_index", "THW_INDEX" >>,
       << "idx", "thsw_index", "THSW_INDEX" >>,
       << "idx", "wet_bulb", "WET_BULB" >>,
       << "idx", "wind_chill", "WIND_CHILL" >>,
       << "get0", "rainfall_day_in", "RAIN_DAY" >>,
       << "zero", "rainfall_last_15_min_in", "RAIN_DAY_15M" >>,
       << "zero", "rainfall_last_60_min_in", "RAIN_DAY_60M" >>,
       << "zero", "rainfall_last_24_hr_in", "RAIN_DAY_24H" >>,
       << "zero", "rain_storm_current_in", "RAIN_STORM" >>,
       << "get", "rain_storm_current_start_at", "RAIN_STORM_START" >>,
       << "zero", "rain_storm_last_in", "RAIN_STORM_LAST" >>,
       << "get", "rain_storm_last_start_at", "RAIN_STORM_LAST_START" >>,
       << "get", "rain_storm_last_end_at", "RAIN_STORM_LAST_END" >>,
       << "zero", "rain_rate_last_in", "RAIN_RATE" >>,
       << "zero", "rain_rate_hi_in", "RAIN_RATE_HI" >>,
       << "zero", "rain_rate_hi_last_15_min_in", "RAIN_RATE_HI_15M" >>,
       << "zero", "rainfall_month_in", "RAIN_MONTH" >>,
       << "zero", "rainfall_year_in", "RAIN_YEAR" >>,
       << "nn", "trans_battery_flag", "TRANS_BATTERY_FLAG" >>,
       << "nn", "trans_battery_volt", "TRANS_BATTERY_VOLT" >>,
       << "nn", "supercap_volt", "SUPERCAP_VOLT" >>,
       << "nn", "solar_panel_volt", "SOLAR_PANEL_VOLT" >>,
       << "nn", "solar_rad", "SOLAR_RADIATION" >>,
       << "nn", "uv_index", "UV_INDEX" >>,
       << "nn", "et_day", "ET_DAY" >>,
       << "nn", "et_month", "ET_MONTH" >>,
       << "nn", "et_year", "ET_YEAR" >>,
       << "solar", "solar_energy_day", "SOLAR_ENERGY" >>,
       << "nn", "hdd_day", "HDDF_DAY" >>,
       << "dd59", "hdd_day", "HDDC_DAY" >>,
       << "nn", "cdd_day", "CDDF_DAY" >>,
       << "dd59", "cdd_day", "CDDC_DAY" >>,
       << "nn", "uv_dose_day", "UV_DOSE" >>,
       << "nn", "wind_run_day", "WIND_RUN" >>,
       << "nn", "rssi_last", "RSSI" >>,
       << "nn", "freq_error_current", "FREQ_ERROR" >>,
       << "nn", "packets_missed_day", "PACKETS_MISSED" >>,
       << "nn", "packets_received_day", "PACKETS_RECEIVED" >>,
       << "nn", "reception_day", "RECEPTION" >>,
       << "nn", "resyncs_day", "RESYNCS" >>,
       << "nn", "crc_errors_day", "CRC_ERRORS" >>,
       << "get", "rx_state", "RX_STATE" >> >>

\* leaf/soil station, data structures 12 and 25 (the same assignments)
StepsLeafSoil ==
    HeaderSteps \o
    Family("temp", "TEMP", 4) \o
    Family("moist_soil", "MOIST_SOIL", 4) \o
    Family("wet_leaf", "WET_LEAF", 2) \o
    << << "idx", "trans_battery_flag", "TRANS_BATTERY_FLAG" >>,
       << "get", "rx_state", "RX_STATE" >> >>

\* indoor temperature/humidity (365/21 and 243/12)
StepsInside ==
    << << "idx", "temp_in", "TEMP_IN" >>,
       << "idx", "hum_in", "HUM_IN" >> >>

\* barometer (242/12 and 242/19)
StepsBar ==
    << << "idx", "bar_sea_level", "BAR_SEA_LEVEL" >>,
       << "idx", "bar_trend", "BAR_TREND" >> >>

\* AirLink, data structure 16
StepsAirLink ==
    HeaderSteps \o
    << << "idx", "temp", "TEMP" >>,
       << "idx", "hum", "HUM" >>,
       << "idx", "dew_point", "DEWPOINT" >>,
       << "idx", "heat_index", "HEAT_INDEX" >>,
       << "idx", "wet_bulb", "WET_BULB" >>,
       << "idx", "pm_1", "PM_1" >>,
       << "idx", "pm_2p5", "PM_2P5" >>,
       << "idx", "pm_2p5_24_hour", "PM_2P5_24H" >>,
       << "idx", "pm_2p5_1_hour", "PM_2P5_1H" >>,
       << "idx", "pm_2p5_3_hour", "PM_2P5_3H" >>,
       << "idx", "pm_2p5_nowcast", "PM_2P5_NOWCAST" >>,
       << "idx", "pm_10", "PM_10" >>,
       << "idx", "pm_10_24_hour", "PM_10_24H" >>,
       << "idx", "pm_10_1_hour", "PM_10_1H" >>,
       << "idx", "pm_10_3_hour", "PM_10_3H" >>,
       << "idx", "pm_10_nowcast", "PM_10_NOWCAST" >>,
       << "idx", "pct_pm_data_nowcast", "PM_PCT_DATA" >>,
       << "idx", "pct_pm_data_1_hour", "PM_PCT_DATA_1H" >>,
       << "idx", "pct_pm_data_3_hour", "PM_PCT_DATA_3H" >>,
       << "idx", "pct_pm_data_24_hour", "PM_PCT_DATA_24H" >>,
       << "idx", "aqi_val", "AQI_VAL" >>,
       << "idx", "aqi_nowcast_val", "AQI_NOWCAST_VAL" >> >>

(* The dispatch table, in source order.  Each rule is one "if" of the loop *)
(* body: types and ds are its condition; tx says where the transmitter id  *)
(* comes from:                                                             *)
(*   "data"     tx_id = sensor["data"][0]["tx_id"]   (KeyError if absent)  *)
(*   "data_or_1"  tx_id = sensor["data"][0].get("tx_id", 1)                *)
(*   "primary"  tx_id = primary_tx_id                                      *)
(*   "lsid"     tx_id = sensor["lsid"]                                     *)
(* and create says whether the rule does outdata.setdefault(tx_id, {}).    *)
Rules ==
    << [types |-> SENSOR_TYPE_VUE_AND_VANTAGE_PRO \cup {55}, ds |-> 10,
        tx |-> "data", create |-> TRUE, steps |-> StepsDS10],
       [types |-> SENSOR_TYPE_VUE_AND_VANTAGE_PRO, ds |-> 2,
        tx |-> "data_or_1", create |-> TRUE, steps |-> StepsDS2],
       [types |-> SENSOR_TYPE_VUE_AND_VANTAGE_PRO \cup {55}, ds |-> 23,
        tx |-> "data", create |-> TRUE, steps |-> StepsDS23],
       [types |-> {56}, ds |-> 12,
        tx |-> "data", create |-> TRUE, steps |-> StepsLeafSoil],
       [types |-> {56}, ds |-> 25,
        tx |-> "data", create |-> TRUE, steps |-> StepsLeafSoil],
       [types |-> {365}, ds |-> 21,
        tx |-> "primary", create |-> FALSE, steps |-> StepsInside],
       [types |-> {243}, ds |-> 12,
        tx |-> "primary", create |-> FALSE, steps |-> StepsInside],
       [types |-> {242}, ds |-> 12,
        tx |-> "primary", create |-> FALSE, steps |-> StepsBar],
       [types |-> {242}, ds |-> 19,
        tx |-> "primary", create |-> FALSE, steps |-> StepsBar],
       [types |-> SENSOR_TYPE_AIRLINK, ds |-> 16,
        tx |-> "lsid", create |-> TRUE, steps |-> StepsAirLink] >>

----------------------------------------------------------------------------
(* _preprocess, API v2 branch.                                             *)
(* A raw payload is [station_id_uuid, sensors]; a sensor record is         *)
(* [sensor_type, data_structure_type, lsid, data] where data stands for    *)
(* sensor["data"][0].  A snapshot (outdata) is [top, tx]: top holds the    *)
(* string-keyed entries (DataKey.UUID), tx maps a transmitter id to its    *)
(* record.  A pass returns [err, out]: err is TRUE when the pass raised    *)
(* KeyError, and out is then outdata as it stood at the raise.             *)

\* one assignment of a rule body, applied to the transmitter record rec
ApplyStep(rec, sensor, step) ==
    LET op  == step[1]
        src == step[2]
        dst == step[3]
        d   == sensor.data
        x0  == IF Has(d, src) THEN d[src] ELSE Num(0)   \* data.get(src, 0.0)
        ok(r) == [err |-> FALSE, rec |-> r]
    IN  CASE op = "sensor" -> ok(Put(rec, dst, Num(sensor[src])))
          [] op = "idx"    -> IF Has(d, src) THEN ok(Put(rec, dst, d[src]))
                                             ELSE [err |-> TRUE, rec |-> rec]
          [] op = "get"    -> ok(Put(rec, dst, IF Has(d, src) THEN d[src] ELSE None))
          [] op = "get0"   -> ok(Put(rec, dst, x0))
          [] op = "zero"   -> ok(Put(rec, dst, IF IsNone(x0) THEN Num(0) ELSE x0))
          [] op = "nn"     -> IF IsNone(x0) THEN ok(rec) ELSE ok(Put(rec, dst, x0))
          [] op = "solar"  -> IF IsNone(x0) THEN ok(rec)
                                            ELSE ok(Put(rec, dst, Scale(x0, 11622, 1000)))
          [] op = "dd59"   -> IF IsNone(x0) THEN ok(rec)
                                            ELSE ok(Put(rec, dst, Scale(x0, 5, 9)))
          [] op = "trend"  -> ok(Put(rec, dst, IF IsNone(x0) THEN x0
                                                             ELSE Scale(x0, 1, 1000)))

\* the assignments steps[i..] of a rule body, in order, stopping at a KeyError
RECURSIVE RunSteps(_, _, _, _)
RunSteps(rec, sensor, steps, i) ==
    IF i > Len(steps) THEN [err |-> FALSE, rec |-> rec]
    ELSE LET r == ApplyStep(rec, sensor, steps[i])
         IN  IF r.err THEN r ELSE RunSteps(r.rec, sensor, steps, i + 1)

\* Matches with the data structure type left out of the condition
MatchesTypeOnly(sensor, rule) == sensor.sensor_type \in rule.types

\* Matches with the sensor type left out of the condition
MatchesStructureOnly(sensor, rule) == sensor.data_structure_type = rule.ds

\* the condition of a rule's "if"
Matches(sensor, rule) ==
    /\ sensor.sensor_type \in rule.types
    /\ sensor.data_structure_type = rule.ds

\* ResolveTx with every structure falling back to the primary transmitter
\* when the data carries no tx_id
ResolveTxDefaulting(sensor, rule, primary) ==
    LET d == sensor.data
    IN  CASE rule.tx \in {"data", "data_or_1"} ->
                [err |-> FALSE, id |-> IF Has(d, "tx_id") THEN d["tx_id"][1] ELSE primary]
          [] rule.tx = "primary" -> [err |-> FALSE, id |-> primary]
          [] rule.tx = "lsid" -> [err |-> FALSE, id |-> sensor.lsid]

\* the transmitter id a rule writes to: [err, id]
ResolveTx(sensor, rule, primary) ==
    LET d == sensor.data
    IN  CASE rule.tx = "data" ->
                IF Has(d, "tx_id") THEN [err |-> FALSE, id |-> d["tx_id"][1]]
                                   ELSE [err |-> TRUE, id |-> primary]
          [] rule.tx = "data_or_1" ->
                [err |-> FALSE, id |-> IF Has(d, "tx_id") THEN d["tx_id"][1] ELSE 1]
          [] rule.tx = "primary" -> [err |-> FALSE, id |-> primary]
          [] rule.tx = "lsid" -> [err |-> FALSE, id |-> sensor.lsid]

\* ApplyRule with outdata[tx_id] = {} in place of setdefault: a rule that
\* creates the transmitter record starts it afresh
ApplyRuleReplacing(out, sensor, rule, primary) ==
    LET t == ResolveTx(sensor, rule, primary)
    IN  IF t.err THEN [err |-> TRUE, out |-> out]
        ELSE LET tx1 == IF rule.create
                        THEN Put(out.tx, t.id, EmptyDict)
                        ELSE out.tx
             IN  IF t.id \notin DOMAIN tx1
                 THEN [err |-> TRUE, out |-> out]
                 ELSE LET r == RunSteps(tx1[t.id], sensor, rule.steps, 1)
                      IN  [err |-> r.err,
                           out |-> [out EXCEPT !.tx = Put(tx1, t.id, r.rec)]]

\* the body of one rule's "if" applied to outdata
ApplyRule(out, sensor, rule, primary) ==
    LET t == ResolveTx(sensor, rule, primary)
    IN  IF t.err THEN [err |-> TRUE, out |-> out]
        ELSE LET tx1 == IF rule.create /\ t.id \notin DOMAIN out.tx
                        THEN Put(out.tx, t.id, EmptyDict)     \* setdefault
                        ELSE out.tx
             IN  IF t.id \notin DOMAIN tx1
                 THEN [err |-> TRUE, out |-> out]             \* outdata[tx_id] raises
                 ELSE LET r == RunSteps(tx1[t.id], sensor, rule.steps, 1)
                      IN  [err |-> r.err,
                           out |-> [out EXCEPT !.tx = Put(tx1, t.id, r.rec)]]

\* the loop body for one sensor record: the "if"s rules[i..] in source order
RECURSIVE ApplySensor(_, _, _, _)
ApplySensor(out, sensor, primary, i) ==
    IF i > Len(Rules) THEN [err |-> FALSE, out |-> out]
    ELSE IF Matches(sensor, Rules[i])
         THEN LET r == ApplyRule(out, sensor, Rules[i], primary)
              IN  IF r.err THEN r ELSE ApplySensor(r.out, sensor, primary, i + 1)
         ELSE ApplySensor(out, sensor, primary, i + 1)

\* for sensor in indata["sensors"], from position i on
RECURSIVE SensorLoop(_, _, _, _)
SensorLoop(out, sensors, primary, i) ==
    IF i > Len(sensors) THEN [err |-> FALSE, out |-> out]
    ELSE LET r == ApplySensor(out, sensors[i], primary, 1)
         IN  IF r.err THEN r ELSE SensorLoop(r.out, sensors, primary, i + 1)

\* InitialOut without the record of the primary transmitter
InitialOutNoPrimary(indata, primary) ==
    [top |-> Put(EmptyDict, "UUID", indata.station_id_uuid),
     tx  |-> [x \in {} |-> EmptyDict]]

\* InitialOut creating the record of transmitter 1, as the API v1 branch
\* does, whatever the primary transmitter is
InitialOutFirstTx(indata, primary) ==
    [top |-> Put(EmptyDict, "UUID", indata.station_id_uuid),
     tx  |-> Put([x \in {} |-> EmptyDict], 1, EmptyDict)]

\* outdata before the loop: the primary record and the station uuid
InitialOut(indata, primary) ==
    [top |-> Put(EmptyDict, "UUID", indata.station_id_uuid),
     tx  |-> Put([x \in {} |-> EmptyDict], primary, EmptyDict)]

Preprocess(indata, primary) ==
    SensorLoop(InitialOut(indata, primary), indata.sensors, primary, 1)

----------------------------------------------------------------------------
(* _preprocess, API v1 branch.                                             *)
(* A raw payload is a mapping whose entry DCO is itself a mapping.  A      *)
(* string is << 0, 0 >> followed by its character codes (a number never   *)
(* has denominator 0); an RFC-822 date the library can parse is the text   *)
(* << 1, 0, year, month, day, hour, minute, second, zone >> with zone the  *)
(* offset east of UTC in minutes.                                          *)

DCO == "davis_current_observation"

Str(codes) == << 0, 0 >> \o codes

IsNum(v) == Len(v) = 2 /\ v[2] > 0

IsStr(v) == Len(v) >= 2 /\ v[1] = 0 /\ v[2] = 0

Chars(v) == SubSeq(v, 3, Len(v))

Rfc(y, m, d, h, mi, sec, zone) == << 1, 0, y, m, d, h, mi, sec, zone >>

IsRfc(v) == Len(v) = 9 /\ v[1] = 1 /\ v[2] = 0

RfcFields(v) ==
    [year |-> v[3], month |-> v[4], day |-> v[5], hour |-> v[6],
     minute |-> v[7], second |-> v[8], zone |-> v[9]]

\* the assignments of the branch before the timestamp, in source order:
\* << where the field is read, upstream field, snapshot field >>
StepsV1 ==
    << << "dco", "DID", "DID" >>,
       << "dco", "station_name", "station_name" >>,
       << "top", "temp_f", "TEMP_OUT" >>,
       << "top", "heat_index_f", "HEAT_INDEX" >>,
       << "top", "wind_chill_f", "WIND_CHILL" >>,
       << "dco", "temp_in_f", "TEMP_IN" >>,
       << "dco", "relative_humidity_in", "HUM_IN" >>,
       << "top", "relative_humidity", "HUM_OUT" >>,
       << "top", "pressure_in", "BAR_SEA_LEVEL" >>,
       << "top", "wind_mph", "WIND_MPH" >>,
       << "dco", "wind_ten_min_gust_mph", "WIND_GUST_MPH" >>,
       << "top", "wind_degrees", "WIND_DIR" >>,
       << "top", "dewpoint_f", "DEWPOINT" >>,
       << "dco", "rain_day_in", "RAIN_DAY" >>,
       << "dco0", "rain_storm_in", "RAIN_STORM" >>,
       << "dco", "rain_rate_in_per_hr", "RAIN_RATE" >>,
       << "dco", "rain_month_in", "RAIN_MONTH" >>,
       << "dco", "rain_year_in", "RAIN_YEAR" >>,
       << "dco", "pressure_tendency_string", "BAR_TREND" >>,
       << "dco", "solar_radiation", "SOLAR_RADIATION" >>,
       << "dco", "uv_index", "UV_INDEX" >>,
       << "dco", "et_day", "ET_DAY" >>,
       << "dco", "et_month", "ET_MONTH" >>,
       << "dco", "et_year", "ET_YEAR" >> >>

\* one assignment: indata.get(src), indata[DCO].get(src) or
\* indata[DCO].get(src, 0.0)
ApplyStepV1(rec, indata, step) ==
    LET dco == indata[DCO]
        v == CASE step[1] = "top" ->
                    IF Has(indata, step[2]) THEN indata[step[2]] ELSE None
               [] step[1] = "dco" ->
                    IF Has(dco, step[2]) THEN dco[step[2]] ELSE None
               [] step[1] = "dco0" ->
                    IF Has(dco, step[2]) THEN dco[step[2]] ELSE Num(0)
    IN  Put(rec, step[3], v)

RECURSIVE RunStepsV1(_, _, _)
RunStepsV1(rec, indata, i) ==
    IF i > Len(StepsV1) THEN rec
    ELSE RunStepsV1(ApplyStepV1(rec, indata, StepsV1[i]), indata, i + 1)

IsLeap(y) == (y % 4 = 0) /\ ((y % 100 # 0) \/ (y % 400 = 0))

DaysInMonth(y, m) ==
    IF m = 2 THEN (IF IsLeap(y) THEN 29 ELSE 28)
    ELSE IF m \in {4, 6, 9, 11} THEN 30 ELSE 31

\* days in the months of year y before month m
RECURSIVE DaysBeforeMonth(_, _)
DaysBeforeMonth(y, m) ==
    IF m = 1 THEN 0 ELSE DaysBeforeMonth(y, m - 1) + DaysInMonth(y, m - 1)

\* days before January 1st of year y, counted from year 1
DaysBeforeYear(y) ==
    (y - 1) * 365 + ((y - 1) \div 4) - ((y - 1) \div 100) + ((y - 1) \div 400)

\* date(y, m, d).toordinal()
ToOrdinal(y, m, d) == DaysBeforeYear(y) + DaysBeforeMonth(y, m) + d

\* calendar.timegm of the date fields
Timegm(d) ==
    (ToOrdinal(d.year, d.month, d.day) - ToOrdinal(1970, 1, 1)) * 86400
    + d.hour * 3600 + d.minute * 60 + d.second

\* MktimeTz with the zone offset of the date left out
MktimeTzNoZone(v) ==
    IF IsRfc(v)
    THEN [err |-> FALSE, val |-> Num(Timegm(RfcFields(v)))]
    ELSE [err |-> TRUE, val |-> None]

\* mktime_tz(parsedate_tz(v)): [err, val]; parsedate_tz gives None for text
\* it cannot parse and mktime_tz(None) raises TypeError
MktimeTz(v) ==
    IF IsRfc(v)
    THEN [err |-> FALSE,
          val |-> Num(Timegm(RfcFields(v)) - RfcFields(v).zone * 60)]
    ELSE [err |-> TRUE, val |-> None]

\* the API v1 branch: [err, out, exc]
PreprocessV1(indata) ==
    LET out0 == [top |-> EmptyDict, tx |-> Put([x \in {} |-> EmptyDict], 1, EmptyDict)]
    IN  IF ~Has(indata, DCO)
        THEN [err |-> TRUE, out |-> out0, exc |-> "KeyError"]
        ELSE LET rec == RunStepsV1(EmptyDict, indata, 1)
                 out1 == [out0 EXCEPT !.tx = Put(@, 1, rec)]
             IN  IF ~Has(indata, "observation_time_rfc822")
                 THEN [err |-> TRUE, out |-> out1, exc |-> "KeyError"]
                 ELSE LET t == MktimeTz(indata["observation_time_rfc822"])
                      IN  IF t.err
                          THEN [err |-> TRUE, out |-> out1, exc |-> "TypeError"]
                          ELSE [err |-> FALSE, exc |-> "none",
                                out |-> [out0 EXCEPT !.tx =
                                            Put(@, 1, Put(rec, "TIMESTAMP", t.val))]]

\* a pass of the API v2 branch with the exception it raised
WithException(r) ==
    [err |-> r.err, out |-> r.out, exc |-> IF r.err THEN "KeyError" ELSE "none"]

\* the pass r with every TIMESTAMP set to the time of the pass
Stamped(r) ==
    [r EXCEPT !.out.tx =
        [t \in DOMAIN @ |->
            IF Has(@[t], "TIMESTAMP") THEN Put(@[t], "TIMESTAMP", Num(now))
            ELSE @[t]]]

\* PreprocessFor with every TIMESTAMP set to the time of the pass
PreprocessStamping(version, indata, primary) ==
    IF version = "api_v1" THEN Stamped(PreprocessV1(indata))
    ELSE Stamped(WithException(Preprocess(indata, primary)))

\* _preprocess for an entry of the given API version: [err, out, exc]
PreprocessFor(version, indata, primary) ==
    IF version = "api_v1" THEN PreprocessV1(indata)
    ELSE WithException(Preprocess(indata, primary))

----------------------------------------------------------------------------
(* Entity descriptions (sensor.py, SENSOR_TYPES), in source order:         *)
(* key, tag, whether ApiVersion.API_V1 is in exclude_api_ver,              *)
(* exclude_data_structure and aux_sensors.                                 *)

SENSOR_TYPES ==
    <<[key |-> "OutsideTemp", tag |-> "TEMP_OUT", xv1 |-> FALSE, xds |-> {}, aux |-> {37, 55}],
       [key |-> "InsideTemp", tag |-> "TEMP_IN", xv1 |-> FALSE, xds |-> {}, aux |-> {}],
       [key |-> "OutsideHumidity", tag |-> "HUM_OUT", xv1 |-> FALSE, xds |-> {}, aux |-> {37, 55}],
       [key |-> "InsideHumidity", tag |-> "HUM_IN", xv1 |-> FALSE, xds |-> {}, aux |-> {}],
       [key |-> "Pressure", tag |-> "BAR_SEA_LEVEL", xv1 |-> FALSE, xds |-> {}, aux |-> {}],
       [key |-> "BarTrend", tag |-> "BAR_TREND", xv1 |-> FALSE, xds |-> {}, aux |-> {}],
       [key |-> "Wind", tag |-> "WIND_MPH", xv1 |-> FALSE, xds |-> {}, aux |-> {37, 55}],
       [key |-> "Wind_1min", tag |-> "WIND_MPH_1M", xv1 |-> FALSE, xds |-> {}, aux |-> {37, 55}],
       [key |-> "Wind_2min", tag |-> "WIND_MPH_2M", xv1 |-> FALSE, xds |-> {}, aux |-> {37, 55}],
       [key |-> "Wind_10min", tag |-> "WIND_MPH_10M", xv1 |-> FALSE, xds |-> {}, aux |-> {37, 55}],
       [key |-> "WindGust", tag |-> "WIND_GUST_MPH", xv1 |-> FALSE, xds |-> {}, aux |-> {37, 55}],
       [key |-> "WindGust_2min", tag |-> "WIND_GUST_MPH_2M", xv1 |-> FALSE, xds |-> {}, aux |-> {37, 55}],
       [key |-> "WindDir", tag |-> "WIND_DIR", xv1 |-> FALSE, xds |-> {}, aux |-> {37, 55}],
       [key |-> "WindDir_2min", tag |-> "WIND_DIR_2M", xv1 |-> FALSE, xds |-> {}, aux |-> {37, 55}],
       [key |-> "WindDir_10min", tag |-> "WIND_DIR_10M", xv1 |-> FALSE, xds |-> {}, aux |-> {37, 55}],
       [key |-> "WindGustDir", tag |-> "WIND_GUST_DIR", xv1 |-> FALSE, xds |-> {}, aux |-> {37, 55}],
       [key |-> "WindGustDir_2min", tag |-> "WIND_GUST_DIR_2M", xv1 |-> FALSE, xds |-> {}, aux |-> {37, 55}],
       [key |-> "WindDirDeg", tag |-> "WIND_DIR", xv1 |-> FALSE, xds |-> {}, aux |-> {37, 55}],
       [key |-> "WindGustDirDeg", tag |-> "WIND_GUST_DIR", xv1 |-> FALSE, xds |-> {}, aux |-> {37, 55}],
       [key |-> "RainToday", tag |-> "RAIN_DAY", xv1 |-> FALSE, xds |-> {}, aux |-> {37, 55}],
       [key |-> "RainToday_15min", tag |-> "RAIN_DAY_15M", xv1 |-> FALSE, xds |-> {}, aux |-> {37, 55}],
       [key |-> "RainToday_60min", tag |-> "RAIN_DAY_60M", xv1 |-> FALSE, xds |-> {}, aux |-> {37, 55}],
       [key |-> "RainToday_24h", tag |-> "RAIN_DAY_24H", xv1 |-> FALSE, xds |-> {}, aux |-> {37, 55}],
       [key |-> "RainRate", tag |-> "RAIN_RATE", xv1 |-> FALSE, xds |-> {}, aux |-> {37, 55}],
       [key |-> "RainRate_hi", tag |-> "RAIN_RATE_HI", xv1 |-> FALSE, xds |-> {}, aux |-> {37, 55}],
       [key |-> "RainRate_hi_15min", tag |-> "RAIN_RATE_HI_15M", xv1 |-> FALSE, xds |-> {}, aux |-> {37, 55}],
       [key |-> "RainStorm", tag |-> "RAIN_STORM", xv1 |-> FALSE, xds |-> {}, aux |-> {37, 55}],
       [key |-> "RainStormLast", tag |-> "RAIN_STORM_LAST", xv1 |-> TRUE, xds |-> {2}, aux |-> {37, 55}],
       [key |-> "ETDay", tag |-> "ET_DAY", xv1 |-> FALSE, xds |-> {}, aux |-> {}],
       [key |-> "ETMonth", tag |-> "ET_MONTH", xv1 |-> FALSE, xds |-> {}, aux |-> {}],
       [key |-> "ETYear", tag |-> "ET_YEAR", xv1 |-> FALSE, xds |-> {}, aux |-> {}],
       [key |-> "RainInMonth", tag |-> "RAIN_MONTH", xv1 |-> FALSE, xds |-> {}, aux |-> {37, 55}],
       [key |-> "RainInYear", tag |-> "RAIN_YEAR", xv1 |-> FALSE, xds |-> {}, aux |-> {37, 55}],
       [key |-> "Dewpoint", tag |-> "DEWPOINT", xv1 |-> FALSE, xds |-> {}, aux |-> {37, 55, 323, 326}],
       [key |-> "WindChill", tag |-> "WIND_CHILL", xv1 |-> FALSE, xds |-> {}, aux |-> {37, 55}],
       [key |-> "HeatIndex", tag |-> "HEAT_INDEX", xv1 |-> FALSE, xds |-> {}, aux |-> {37, 55, 323, 326}],
       [key |-> "WetBulb", tag |-> "WET_BULB", xv1 |-> TRUE, xds |-> {2}, aux |-> {37, 55, 323, 326}],
       [key |-> "ThwIndex", tag |-> "THW_INDEX", xv1 |-> TRUE, xds |-> {2}, aux |-> {37, 55}],
       [key |-> "ThswIndex", tag |-> "THSW_INDEX", xv1 |-> TRUE, xds |-> {2}, aux |-> {55}],
       [key |-> "SolarRadiation", tag |-> "SOLAR_RADIATION", xv1 |-> FALSE, xds |-> {}, aux |-> {55}],
       [key |-> "UvIndex", tag |-> "UV_INDEX", xv1 |-> FALSE, xds |-> {}, aux |-> {55}],
       [key |-> "TransBatteryVolt", tag |-> "TRANS_BATTERY_VOLT", xv1 |-> TRUE, xds |-> {2, 10, 12, 25}, aux |-> {37}],
       [key |-> "SolarPanelVolt", tag |-> "SOLAR_PANEL_VOLT", xv1 |-> TRUE, xds |-> {2, 10, 12, 25}, aux |-> {37}],
       [key |-> "SupercapVolt", tag |-> "SUPERCAP_VOLT", xv1 |-> TRUE, xds |-> {2, 10, 12, 25}, aux |-> {37}],
       [key |-> "MoistSoil1", tag |-> "MOIST_SOIL_1", xv1 |-> TRUE, xds |-> {10, 23}, aux |-> {56}],
       [key |-> "MoistSoil2", tag |-> "MOIST_SOIL_2", xv1 |-> TRUE, xds |-> {10, 23}, aux |-> {56}],
       [key |-> "MoistSoil3", tag |-> "MOIST_SOIL_3", xv1 |-> TRUE, xds |-> {10, 23}, aux |-> {56}],
       [key |-> "MoistSoil4", tag |-> "MOIST_SOIL_4", xv1 |-> TRUE, xds |-> {10, 23}, aux |-> {56}],
       [key |-> "WetLeaf1", tag |-> "WET_LEAF_1", xv1 |-> TRUE, xds |-> {10, 23}, aux |-> {56}],
       [key |-> "WetLeaf2", tag |-> "WET_LEAF_2", xv1 |-> TRUE, xds |-> {10, 23}, aux |-> {56}],
       [key |-> "WetLeaf3", tag |-> "WET_LEAF_3", xv1 |-> TRUE, xds |-> {10, 23}, aux |-> {}],
       [key |-> "WetLeaf4", tag |-> "WET_LEAF_4", xv1 |-> TRUE, xds |-> {10, 23}, aux |-> {}],
       [key |-> "Temp1", tag |-> "TEMP_1", xv1 |-> TRUE, xds |-> {2, 10, 23}, aux |-> {56}],
       [key |-> "Temp2", tag |-> "TEMP_2", xv1 |-> TRUE, xds |-> {2, 10, 23}, aux |-> {56}],
       [key |-> "Temp3", tag |-> "TEMP_3", xv1 |-> TRUE, xds |-> {2, 10, 23}, aux |-> {56}],
       [key |-> "Temp4", tag |-> "TEMP_4", xv1 |-> TRUE, xds |-> {2, 10, 23}, aux |-> {56}],
       [key |-> "TempExtra1", tag |-> "TEMP_EXTRA_1", xv1 |-> TRUE, xds |-> {10, 23}, aux |-> {}],
       [key |-> "TempExtra2", tag |-> "TEMP_EXTRA_2", xv1 |-> TRUE, xds |-> {10, 23}, aux |-> {}],
       [key |-> "TempExtra3", tag |-> "TEMP_EXTRA_3", xv1 |-> TRUE, xds |-> {10, 23}, aux |-> {}],
       [key |-> "TempExtra4", tag |-> "TEMP_EXTRA_4", xv1 |-> TRUE, xds |-> {10, 23}, aux |-> {}],
       [key |-> "TempExtra5", tag |-> "TEMP_EXTRA_5", xv1 |-> TRUE, xds |-> {10, 23}, aux |-> {}],
       [key |-> "TempExtra6", tag |-> "TEMP_EXTRA_6", xv1 |-> TRUE, xds |-> {10, 23}, aux |-> {}],
       [key |-> "TempExtra7", tag |-> "TEMP_EXTRA_7", xv1 |-> TRUE, xds |-> {10, 23}, aux |-> {}],
       [key |-> "TempSoil1", tag |-> "TEMP_SOIL_1", xv1 |-> TRUE, xds |-> {10, 23}, aux |-> {}],
       [key |-> "TempSoil2", tag |-> "TEMP_SOIL_2", xv1 |-> TRUE, xds |-> {10, 23}, aux |-> {}],
       [key |-> "TempSoil3", tag |-> "TEMP_SOIL_3", xv1 |-> TRUE, xds |-> {10, 23}, aux |-> {}],
       [key |-> "TempSoil4", tag |-> "TEMP_SOIL_4", xv1 |-> TRUE, xds |-> {10, 23}, aux |-> {}],
       [key |-> "TempLeaf1", tag |-> "TEMP_LEAF_1", xv1 |-> TRUE, xds |-> {10, 23}, aux |-> {}],
       [key |-> "TempLeaf2", tag |-> "TEMP_LEAF_2", xv1 |-> TRUE, xds |-> {10, 23}, aux |-> {}],
       [key |-> "TempLeaf3", tag |-> "TEMP_LEAF_3", xv1 |-> TRUE, xds |-> {10, 23}, aux |-> {}],
       [key |-> "TempLeaf4", tag |-> "TEMP_LEAF_4", xv1 |-> TRUE, xds |-> {10, 23}, aux |-> {}],
       [key |-> "HumidityExtra1", tag |-> "HUM_EXTRA_1", xv1 |-> FALSE, xds |-> {10, 23}, aux |-> {}],
       [key |-> "HumidityExtra2", tag |-> "HUM_EXTRA_2", xv1 |-> FALSE, xds |-> {10, 23}, aux |-> {}],
       [key |-> "HumidityExtra3", tag |-> "HUM_EXTRA_3", xv1 |-> FALSE, xds |-> {10, 23}, aux |-> {}],
       [key |-> "HumidityExtra4", tag |-> "HUM_EXTRA_4", xv1 |-> FALSE, xds |-> {10, 23}, aux |-> {}],
       [key |-> "HumidityExtra5", tag |-> "HUM_EXTRA_5", xv1 |-> FALSE, xds |-> {10, 23}, aux |-> {}],
       [key |-> "HumidityExtra6", tag |-> "HUM_EXTRA_6", xv1 |-> FALSE, xds |-> {10, 23}, aux |-> {}],
       [key |-> "HumidityExtra7", tag |-> "HUM_EXTRA_7", xv1 |-> FALSE, xds |-> {10, 23}, aux |-> {}],
       [key |-> "PM1", tag |-> "PM_1", xv1 |-> TRUE, xds |-> {2, 10, 12, 25}, aux |-> {323, 326}],
       [key |-> "PM2P5", tag |-> "PM_2P5", xv1 |-> TRUE, xds |-> {2, 10, 12, 25}, aux |-> {323, 326}],
       [key |-> "PM2P5_1H", tag |-> "PM_2P5_1H", xv1 |-> TRUE, xds |-> {2, 10, 12, 25}, aux |-> {323, 326}],
       [key |-> "PM2P5_3H", tag |-> "PM_2P5_3H", xv1 |-> TRUE, xds |-> {2, 10, 12, 25}, aux |-> {323, 326}],
       [key |-> "PM2P5_24H", tag |-> "PM_2P5_24H", xv1 |-> TRUE, xds |-> {2, 10, 12, 25}, aux |-> {323, 326}],
       [key |-> "PM2P5_NOWCAST", tag |-> "PM_2P5_NOWCAST", xv1 |-> TRUE, xds |-> {2, 10, 12, 25}, aux |-> {323, 326}],
       [key |-> "Pm10", tag |-> "PM_10", xv1 |-> TRUE, xds |-> {2, 10, 12, 25}, aux |-> {323, 326}],
       [key |-> "Pm10_1h", tag |-> "PM_10_1H", xv1 |-> TRUE, xds |-> {2, 10, 12, 25}, aux |-> {323, 326}],
       [key |-> "Pm10_3h", tag |-> "PM_10_3H", xv1 |-> TRUE, xds |-> {2, 10, 12, 25}, aux |-> {323, 326}],
       [key |-> "Pm10_24h", tag |-> "PM_10_24H", xv1 |-> TRUE, xds |-> {2, 10, 12, 25}, aux |-> {323, 326}],
       [key |-> "Pm10_nowcast", tag |-> "PM_10_NOWCAST", xv1 |-> TRUE, xds |-> {2, 10, 12, 25}, aux |-> {323, 326}],
       [key |-> "Pm_Pct_Data", tag |-> "PM_PCT_DATA", xv1 |-> TRUE, xds |-> {2, 10, 12, 25}, aux |-> {323, 326}],
       [key |-> "Pm_Pct_Data_1H", tag |-> "PM_PCT_DATA_1H", xv1 |-> TRUE, xds |-> {2, 10, 12, 25}, aux |-> {323, 326}],
       [key |-> "Pm_Pct_Data_3H", tag |-> "PM_PCT_DATA_3H", xv1 |-> TRUE, xds |-> {2, 10, 12, 25}, aux |-> {323, 326}],
       [key |-> "Pm_Pct_Data_24H", tag |-> "PM_PCT_DATA_24H", xv1 |-> TRUE, xds |-> {2, 10, 12, 25}, aux |-> {323, 326}],
       [key |-> "AQI", tag |-> "AQI_VAL", xv1 |-> TRUE, xds |-> {2, 10, 12, 25}, aux |-> {323, 326}],
       [key |-> "AQI_NOWCAST", tag |-> "AQI_NOWCAST_VAL", xv1 |-> TRUE, xds |-> {2, 10, 12, 25}, aux |-> {323, 326}],
       [key |-> "Temp", tag |-> "TEMP", xv1 |-> TRUE, xds |-> {2, 10, 12, 25}, aux |-> {323, 326}],
       [key |-> "Hum", tag |-> "HUM", xv1 |-> TRUE, xds |-> {2, 10, 12, 25}, aux |-> {323, 326}],
       [key |-> "SolarEnergy", tag |-> "SOLAR_ENERGY", xv1 |-> TRUE, xds |-> {2, 10, 12, 25, 55}, aux |-> {23}],
       [key |-> "UV_Dose", tag |-> "UV_DOSE", xv1 |-> TRUE, xds |-> {2, 10, 12, 25, 55}, aux |-> {23}],
       [key |-> "Wind_run", tag |-> "WIND_RUN", xv1 |-> TRUE, xds |-> {2, 10, 12, 25, 55}, aux |-> {37, 23}],
       [key |-> "heatdegreec_day", tag |-> "HDDC_DAY", xv1 |-> TRUE, xds |-> {2, 10, 12, 25, 55}, aux |-> {37, 23}],
       [key |-> "cooldegreec_day", tag |-> "CDDC_DAY", xv1 |-> TRUE, xds |-> {2, 10, 12, 25, 55}, aux |-> {37, 23}],
       [key |-> "heatdegreef_day", tag |-> "HDDF_DAY", xv1 |-> TRUE, xds |-> {2, 10, 12, 25, 55}, aux |-> {37, 23}],
       [key |-> "cooldegreef_day", tag |-> "CDDF_DAY", xv1 |-> TRUE, xds |-> {2, 10, 12, 25, 55}, aux |-> {37, 23}],
       [key |-> "Rssi_last", tag |-> "RSSI", xv1 |-> TRUE, xds |-> {2, 10, 12, 25, 55}, aux |-> {37, 23}],
       [key |-> "RX_state", tag |-> "RX_STATE", xv1 |-> TRUE, xds |-> {2, 16, 18}, aux |-> {37, 55, 56}],
       [key |-> "Freq_error", tag |-> "FREQ_ERROR", xv1 |-> TRUE, xds |-> {2, 10, 12, 25, 55}, aux |-> {37, 23}],
       [key |-> "Packets_missed", tag |-> "PACKETS_MISSED", xv1 |-> TRUE, xds |-> {2, 10, 12, 25, 55}, aux |-> {37, 23}],
       [key |-> "Packets_received", tag |-> "PACKETS_RECEIVED", xv1 |-> TRUE, xds |-> {2, 10, 12, 25, 55}, aux |-> {37, 23}],
       [key |-> "Reception", tag |-> "RECEPTION", xv1 |-> TRUE, xds |-> {2, 10, 12, 25, 55}, aux |-> {37, 23}],
       [key |-> "Resyncs", tag |-> "RESYNCS", xv1 |-> TRUE, xds |-> {2, 10, 12, 25, 55}, aux |-> {37, 23}],
       [key |-> "Crc_errors", tag |-> "CRC_ERRORS", xv1 |-> TRUE, xds |-> {2, 10, 12, 25, 55}, aux |-> {37, 23}] >>

----------------------------------------------------------------------------
(* Inputs: sensor records and payloads the upstream can answer with.       *)

MaxSensors == 2      \* sensor records per payload
MaxTxId == 2         \* transmitter ids 1..MaxTxId
StartTime == 3600    \* the clock at setup, in seconds
MaxNow == 3940       \* the clock stops here

TxIds == 1..MaxTxId

\* the source fields the rules matching (type, ds) read from sensor["data"][0]
RuleFields(rule) ==
    { rule.steps[i][2] : i \in { j \in 1..Len(rule.steps) : rule.steps[j][1] # "sensor" } }
    \cup (IF rule.tx \in {"data", "data_or_1"} THEN {"tx_id"} ELSE {})

DataFields(type, ds) ==
    {"ts"} \cup
    UNION { RuleFields(Rules[i]) :
            i \in { j \in 1..Len(Rules) : type \in Rules[j].types /\ ds = Rules[j].ds } }

\* a sensor record with every field its structure defines: tx_id tx (where
\* the structure has one), timestamp ts, every measurement v
FullSensor(type, ds, lsid, tx, ts, v) ==
    [sensor_type |-> type, data_structure_type |-> ds, lsid |-> lsid,
     data |-> [f \in DataFields(type, ds) |->
                 CASE f = "tx_id" -> Num(tx)
                   [] f = "ts" -> Num(ts)
                   [] OTHER -> Num(v)]]

\* the record with field f left out of its data, or present with value null
Perturb(sensor, f, mode) ==
    IF mode = "absent" THEN [sensor EXCEPT !.data = Without(@, f)]
                       ELSE [sensor EXCEPT !.data = Put(@, f, None)]

\* (sensor_type, data_structure_type) pairs that occur: every rule of the
\* dispatch table, and three pairs no rule matches
Kinds ==
    { <<37, 10>>, <<37, 2>>, <<37, 23>>, <<55, 23>>, <<56, 12>>, <<56, 25>>,
      <<365, 21>>, <<243, 12>>, <<242, 12>>, <<242, 19>>, <<323, 16>>,
      <<999, 23>>, <<37, 99>>, <<55, 2>> }

LsidOf(type) == IF type \in SENSOR_TYPE_AIRLINK THEN 99 ELSE 1000 + type

\* the fields a record may lack or carry as null
PerturbedFields ==
    { "tx_id", "ts", "temp", "temp_in", "pm_2p5", "bar_trend",
      "rainfall_daily_in", "rainfall_day_in", "rainfall_last_15_min_in",
      "rainfall_last_60_min_in", "rainfall_last_24_hr_in",
      "rain_storm_in", "rain_storm_current_in", "rain_storm_last_in",
      "rain_storm_start_time", "rain_storm_current_start_at",
      "rain_storm_last_start_at", "rain_storm_last_end_at",
      "trans_battery_flag", "rx_state", "hdd_day", "cdd_day" }

\* tx_id is an integer whenever it is present
Modes(f) == IF f = "tx_id" THEN {"absent"} ELSE {"absent", "null"}

BaseSensors(ts, v) ==
    { FullSensor(k[1], k[2], LsidOf(k[1]), tx, ts, v) : k \in Kinds, tx \in TxIds }

SensorVariants(ts, v) ==
    BaseSensors(ts, v) \cup
    UNION { UNION { { Perturb(s, f, m) : m \in Modes(f) } :
                    f \in PerturbedFields \cap DOMAIN s.data } :
            s \in BaseSensors(ts, v) }

\* complete records that accompany a record under test
Companions(ts, v) ==
    { FullSensor(37, 23, LsidOf(37), 1, ts, v),
      FullSensor(365, 21, LsidOf(365), 1, ts, v) }

\* sequences of n companions
RECURSIVE SeqsOf(_, _)
SeqsOf(S, n) ==
    IF n = 0 THEN { <<>> }
    ELSE { Append(q, x) : q \in SeqsOf(S, n - 1), x \in S }

InsertAt(q, i, x) == SubSeq(q, 1, i - 1) \o <<x>> \o SubSeq(q, i, Len(q))

\* sensor lists of at most MaxSensors records: one record of any variant,
\* placed anywhere among companions (or no record at all)
SensorLists(ts, v, w) ==
    { <<>> } \cup
    UNION { UNION { { InsertAt(q, i, s) : i \in 1..(n + 1), s \in SensorVariants(ts, v) } :
                    q \in SeqsOf(Companions(ts, w), n) } :
            n \in 0..(MaxSensors - 1) }

StationUuid == Num(7)

Payload(sensors) == [station_id_uuid |-> StationUuid, sensors |-> sensors]

\* the payloads of the normalization runs
NormPayloads == { Payload(q) : q \in SensorLists(3540, 18, 3) }

\* the payloads of the fetch cycles: a console report one minute old, a
\* console report 59 minutes old with an AirLink report an hour old, a
\* console report an hour old, an indoor sensor alone, two consoles, and a console followed by a
\* console record that lacks "temp"
CoordPayloads ==
    { Payload(<< FullSensor(37, 23, LsidOf(37), 1, 3540, 18) >>),
      Payload(<< FullSensor(37, 23, LsidOf(37), MaxTxId, 60, 3),
                 FullSensor(323, 16, LsidOf(323), 1, 0, 3) >>),
      Payload(<< FullSensor(37, 23, LsidOf(37), 1, 0, 3) >>),
      Payload(<< FullSensor(365, 21, LsidOf(365), 1, 3540, 3) >>),
      Payload(<< FullSensor(37, 23, LsidOf(37), MaxTxId, 3540, 18),
                 FullSensor(37, 23, LsidOf(37), 1, 3540, 3) >>),
      Payload(<< FullSensor(37, 23, LsidOf(37), MaxTxId, 3540, 3),
                 Perturb(FullSensor(37, 23, LsidOf(37), 1, 3540, 3), "temp", "absent") >>) }

\* the fields of an API v1 payload read at the top level and in DCO
V1TopFields ==
    { "temp_f", "heat_index_f", "wind_chill_f", "relative_humidity",
      "pressure_in", "wind_mph", "wind_degrees", "dewpoint_f" }

V1DcoFields ==
    { "DID", "station_name", "temp_in_f", "relative_humidity_in",
      "wind_ten_min_gust_mph", "rain_day_in", "rain_storm_in",
      "rain_rate_in_per_hr", "rain_month_in", "rain_year_in",
      "pressure_tendency_string", "solar_radiation", "uv_index", "et_day",
      "et_month", "et_year" }

\* "Falling Slowly"
FallingSlowlyText == Str(<< 70, 97, 108, 108, 105, 110, 103, 32, 83, 108, 111, 119, 108, 121 >>)

\* "001D0A00"
DidText == Str(<< 48, 48, 49, 68, 48, 65, 48, 48 >>)

\* an API v1 payload with every field: observation time obs, measurements v
V1Full(obs, v) ==
    [f \in V1TopFields \cup {DCO, "observation_time_rfc822"} |->
        CASE f = DCO ->
                [g \in V1DcoFields |->
                    CASE g = "pressure_tendency_string" -> FallingSlowlyText
                      [] g \in {"DID", "station_name"} -> DidText
                      [] OTHER -> Num(v)]
          [] f = "observation_time_rfc822" -> obs
          [] OTHER -> Num(v)]

\* "yesterday", a text parsedate_tz cannot parse
UnparsableText == Str(<< 121, 101, 115, 116, 101, 114, 100, 97, 121 >>)

\* the observation times of the normalization runs
V1Dates ==
    { Rfc(y, m, d, h, mi, 0, z) :
        y \in {1970, 2000, 2023, 2024}, m \in {1, 2, 3, 12}, d \in {1, 28},
        h \in {0, 23}, mi \in {0, 59}, z \in {-480, 0, 60, 330} }
    \cup { Rfc(2024, 2, 29, 12, 30, 15, z) : z \in {-480, 0, 60, 330} }

\* the API v1 payloads of the normalization runs: complete ones, one without
\* rain_storm_in, one without DCO, one without and one with an unparsable
\* observation time
V1NormPayloads ==
    { V1Full(obs, 18) : obs \in V1Dates }
    \cup { [V1Full(obs, 18) EXCEPT ![DCO] = Without(@, "rain_storm_in")] :
           obs \in { Rfc(2024, 2, 29, 12, 30, 15, z) : z \in {-480, 0, 60, 330} } }
    \cup { Without(V1Full(Rfc(1970, 1, 1, 0, 59, 0, 0), 18), DCO),
           Without(V1Full(Rfc(1970, 1, 1, 0, 59, 0, 0), 18), "observation_time_rfc822"),
           V1Full(UnparsableText, 18) }

\* the API v1 payloads of the fetch cycles: an observation one minute old,
\* one an hour old, a payload without DCO and an unparsable observation time
V1CoordPayloads ==
    { V1Full(Rfc(1970, 1, 1, 0, 59, 0, 0), 18),
      V1Full(Rfc(1970, 1, 1, 1, 0, 0, 60), 3),
      Without(V1Full(Rfc(1970, 1, 1, 0, 59, 0, 0), 3), DCO),
      V1Full(UnparsableText, 3) }

\* the payloads the upstream answers an entry of the given version with
CoordPayloadsFor(version) ==
    IF version = "api_v1" THEN V1CoordPayloads ELSE CoordPayloads

\* a console record (type 37, structure 23) of transmitter 2 with temp 72.0
\* and wind_dir_last 10: with every field of its structure, and with the
\* three fields tx_id, temp and wind_dir_last alone
ScenarioConsole(complete) ==
    LET full == FullSensor(37, 23, LsidOf(37), 2, 3540, 72)
        d    == Put(full.data, "wind_dir_last", Num(10))
    IN  [full EXCEPT !.data =
            IF complete THEN d
            ELSE [f \in {"tx_id", "temp", "wind_dir_last"} |-> d[f]]]

\* an AirLink record (type 323, structure 16, lsid 99) with pm_2p5 8.3
ScenarioAirLink(complete) ==
    LET full == FullSensor(323, 16, 99, 1, 3541, 5)
        d    == Put(full.data, "pm_2p5", << 83, 10 >>)
    IN  [full EXCEPT !.data =
            IF complete THEN d ELSE [f \in {"pm_2p5"} |-> d[f]]]

\* the two-sensor payload, in either order of its records
ScenarioPayloads(complete) ==
    { Payload(<< ScenarioConsole(complete), ScenarioAirLink(complete) >>),
      Payload(<< ScenarioAirLink(complete), ScenarioConsole(complete) >>) }

NormPayloadsFor(version) ==
    IF version = "api_v1" THEN V1NormPayloads
    ELSE NormPayloads \cup ScenarioPayloads(TRUE) \cup ScenarioPayloads(FALSE)

\* an entry of the sensor inventory (get_all_sensors)
InvSensor(station, type, tx, lsid) ==
    [station_id |-> station, sensor_type |-> type, tx_id |-> tx, lsid |-> lsid]

\* the inventories the upstream can answer with; "this" is the configured
\* station
AllSensorsChoices ==
    { << InvSensor("this", 37, Num(1), LsidOf(37)) >>,
      << InvSensor("other", 37, Num(1), LsidOf(37)),
         InvSensor("this", 37, Num(MaxTxId), LsidOf(37)),
         InvSensor("this", 323, None, LsidOf(323)) >>,
      << InvSensor("this", 365, None, LsidOf(365)) >>,
      << InvSensor("this", 56, Num(MaxTxId), LsidOf(56)),
         InvSensor("this", 37, Num(1), LsidOf(37)) >>,
      << InvSensor("this", 56, Num(1), LsidOf(56)),
         InvSensor("this", 37, Num(MaxTxId), LsidOf(37)) >>,
      << InvSensor("this", 37, Num(MaxTxId), LsidOf(37)),
         InvSensor("this", 37, Num(1), LsidOf(37)) >> }

----------------------------------------------------------------------------
(* async_setup_entry (__init__.py), API v2: the inventory and the primary  *)
(* transmitter id.                                                         *)

\* sensors.append(sensor) for the sensors of this station
RECURSIVE OwnSensors(_, _)
OwnSensors(all, i) ==
    IF i > Len(all) THEN <<>>
    ELSE IF all[i].station_id = "this"
         THEN <<all[i]>> \o OwnSensors(all, i + 1)
         ELSE OwnSensors(all, i + 1)

\* tx_ids: the tx_id of every own console sensor that has one
ConsoleTxIds(sensors) ==
    { sensors[i].tx_id[1] :
      i \in { j \in 1..Len(sensors) :
              /\ sensors[j].sensor_type \in SENSOR_TYPE_VUE_AND_VANTAGE_PRO
              /\ ~IsNone(sensors[j].tx_id) } }

Min(S) == CHOOSE x \in S : \A y \in S : x <= y

\* PrimaryTxId over the tx_id of every own sensor, whatever its type
PrimaryTxIdAnyType(sensors) ==
    LET ids == { sensors[i].tx_id[1] :
                 i \in { j \in 1..Len(sensors) : ~IsNone(sensors[j].tx_id) } }
    IN  IF ids = {} THEN 1 ELSE Min(ids)

\* if len(tx_ids) == 0: tx_ids = [1]; primary_tx_id = min(tx_ids)
PrimaryTxId(sensors) ==
    LET ids == ConsoleTxIds(sensors)
    IN  IF ids = {} THEN 1 ELSE Min(ids)

----------------------------------------------------------------------------
(* sensor.py: entity creation and WLSensor.available                       *)

UNAVAILABLE_AFTER_SECONDS == 60

FETCH_TIMEOUT == 10

UPDATE_INTERVAL == 300

PLATFORMS == {"binary_sensor", "sensor"}

NoData == [none |-> TRUE]        \* coordinator.data is None

NoPayload == [none |-> TRUE]     \* no "current" key

\* record.get(k)
Get(rec, k) == IF Has(rec, k) THEN rec[k] ELSE None

\* record.get(DataKey.DATA_STRUCTURE) in description.exclude_data_structure
DsExcluded(rec, desc) ==
    LET v == Get(rec, "DATA_STRUCTURE")
    IN  ~IsNone(v) /\ v[2] = 1 /\ v[1] \in desc.xds

\* the entities of the primary transmitter
PrimaryEntities(snap, primary) ==
    LET Wanted(desc) == /\ ~(api_version = "api_v1" /\ desc.xv1)
                        /\ ~DsExcluded(snap.tx[primary], desc)
                        /\ ~IsNone(Get(snap.tx[primary], desc.tag))
        sel == SelectSeq(SENSOR_TYPES, Wanted)
    IN  [i \in 1..Len(sel) |-> << primary, sel[i].key >>]

\* the entities of one inventory sensor under transmitter id t: [err, list];
\* coordinator.data[t] raises KeyError when a description lists the sensor's
\* type and the snapshot has no record t
AuxEntitiesFor(snap, sensor, t) ==
    LET Listed(desc) == sensor.sensor_type \in desc.aux
        Wanted(desc) == Listed(desc) /\ ~IsNone(Get(snap.tx[t], desc.tag))
    IN  IF SelectSeq(SENSOR_TYPES, Listed) = <<>>
        THEN [err |-> FALSE, list |-> <<>>]
        ELSE IF t \notin DOMAIN snap.tx
             THEN [err |-> TRUE, list |-> <<>>]
             ELSE LET sel == SelectSeq(SENSOR_TYPES, Wanted)
                  IN  [err |-> FALSE,
                       list |-> [i \in 1..Len(sel) |-> << t, sel[i].key >>]]

\* for sensor in sensors_metadata, from position i on
RECURSIVE AuxEntities(_, _, _, _)
AuxEntities(snap, sensors, primary, i) ==
    IF i > Len(sensors) THEN [err |-> FALSE, list |-> <<>>]
    ELSE LET s == sensors[i]
             a == IF IsNone(s.tx_id)
                  THEN AuxEntitiesFor(snap, s, s.lsid)
                  ELSE IF s.tx_id[1] # primary
                       THEN AuxEntitiesFor(snap, s, s.tx_id[1])
                       ELSE [err |-> FALSE, list |-> <<>>]
             rest == AuxEntities(snap, sensors, primary, i + 1)
         IN  IF a.err THEN a
             ELSE [err |-> rest.err, list |-> a.list \o rest.list]

\* sensor.async_setup_entry: the entities handed to async_add_entities, or
\* err when the setup raised
SensorEntities(snap, sensors, primary) ==
    IF snap = NoData \/ primary \notin DOMAIN snap.tx
    THEN [err |-> TRUE, list |-> <<>>]
    ELSE LET aux == IF api_version = "api_v2"
                    THEN AuxEntities(snap, sensors, primary, 1)
                    ELSE [err |-> FALSE, list |-> <<>>]
         IN  IF aux.err THEN aux
             ELSE [err |-> FALSE, list |-> PrimaryEntities(snap, primary) \o aux.list]

\* Available with the whole station judged by its stalest transmitter
AvailableStation(t) ==
    IF ~last_update_success THEN "false"
    ELSE IF data = NoData THEN "TypeError"
    ELSE IF t \notin DOMAIN data.tx THEN "KeyError"
    ELSE IF \E u \in DOMAIN data.tx :
                 Has(data.tx[u], "TIMESTAMP") /\ IsNone(data.tx[u]["TIMESTAMP"])
         THEN "TypeError"
         ELSE IF \A u \in DOMAIN data.tx :
                     Has(data.tx[u], "TIMESTAMP") =>
                         LET ts == data.tx[u]["TIMESTAMP"]
                         IN  (now * ts[2] - ts[1])
                                 < UNAVAILABLE_AFTER_SECONDS * 60 * ts[2]
              THEN "true" ELSE "false"

\* WLSensor.available for an entity of transmitter t at time now:
\* "true", "false", or the exception raised
Available(t) ==
    IF ~last_update_success THEN "false"
    ELSE IF data = NoData THEN "TypeError"
    ELSE IF t \notin DOMAIN data.tx THEN "KeyError"
    ELSE LET ts == Get(data.tx[t], "TIMESTAMP")
         IN  IF IsNone(ts) THEN "TypeError"
             ELSE IF (now * ts[2] - ts[1]) < UNAVAILABLE_AFTER_SECONDS * 60 * ts[2]
                  THEN "true" ELSE "false"

----------------------------------------------------------------------------
(* WLSensor.native_value.  A text is Str of its character codes; the       *)
(* texts read here are decimal numerals and words of letters and blanks    *)
(* (float() also accepts exponents, signs "+", "inf" and "nan", which no   *)
(* input below uses).                                                      *)

\* the compass labels: n nne ne ene e ese se sse s ssw sw wsw w wnw nw nnw
directions ==
    << Str(<< 110 >>),
       Str(<< 110, 110, 101 >>),
       Str(<< 110, 101 >>),
       Str(<< 101, 110, 101 >>),
       Str(<< 101 >>),
       Str(<< 101, 115, 101 >>),
       Str(<< 115, 101 >>),
       Str(<< 115, 115, 101 >>),
       Str(<< 115 >>),
       Str(<< 115, 115, 119 >>),
       Str(<< 115, 119 >>),
       Str(<< 119, 115, 119 >>),
       Str(<< 119 >>),
       Str(<< 119, 110, 119 >>),
       Str(<< 110, 119 >>),
       Str(<< 110, 110, 119 >>) >>

IsDigit(c) == c \in 48..57

RECURSIVE DigitsValue(_)
DigitsValue(q) ==
    IF q = <<>> THEN 0
    ELSE DigitsValue(SubSeq(q, 1, Len(q) - 1)) * 10 + (q[Len(q)] - 48)

RECURSIVE Pow10(_)
Pow10(k) == IF k = 0 THEN 1 ELSE 10 * Pow10(k - 1)

\* float(text) for a text of character codes c: [err, val]; a numeral is an
\* optional "-", digits and at most one "."
ParseFloat(c) ==
    LET neg  == Len(c) > 0 /\ c[1] = 45
        body == IF neg THEN Tail(c) ELSE c
        dots == { i \in 1..Len(body) : body[i] = 46 }
        digs == SelectSeq(body, IsDigit)
        frac == IF dots = {} THEN 0 ELSE Len(body) - (CHOOSE i \in dots : TRUE)
    IN  IF /\ \A i \in 1..Len(body) : IsDigit(body[i]) \/ body[i] = 46
           /\ Cardinality(dots) <= 1
           /\ Len(digs) >= 1
        THEN [err |-> "none",
              val |-> Rat((IF neg THEN -1 ELSE 1) * DigitsValue(digs), Pow10(frac))]
        ELSE [err |-> "ValueError", val |-> None]

\* float(v): [err, val]
FloatOf(v) ==
    IF IsNone(v) THEN [err |-> "TypeError", val |-> None]
    ELSE IF IsNum(v) THEN [err |-> "none", val |-> v]
    ELSE IF IsStr(v) THEN ParseFloat(Chars(v))
    ELSE [err |-> "ValueError", val |-> None]

\* is_float: only ValueError is caught
is_float(v) == FloatOf(v).err = "none"

\* CompassIndex without the half-sector offset
CompassIndexNoOffset(x) == ((4 * x[1]) % (1440 * x[2])) \div (90 * x[2])

\* int(((x + 11.25) % 360) // 22.5) for the number x = n/d:
\* x + 11.25 = (4n + 45d)/(4d), 360 = 1440d/(4d), 22.5 = 90d/(4d).  The
\* arithmetic is exact; the source's is in binary floating point, which
\* agrees for degrees given to the hundredth (the inputs below), where no
\* rounding error reaches a sector boundary.
CompassIndex(x) == ((4 * x[1] + 45 * x[2]) % (1440 * x[2])) \div (90 * x[2])

RisingRapidlyText == Str(<< 114, 105, 115, 105, 110, 103, 95, 114, 97, 112, 105, 100, 108, 121 >>)
RisingSlowlyText == Str(<< 114, 105, 115, 105, 110, 103, 95, 115, 108, 111, 119, 108, 121 >>)
SteadyText == Str(<< 115, 116, 101, 97, 100, 121 >>)
FallingSlowlyLabel == Str(<< 102, 97, 108, 108, 105, 110, 103, 95, 115, 108, 111, 119, 108, 121 >>)
FallingRapidlyText == Str(<< 102, 97, 108, 108, 105, 110, 103, 95, 114, 97, 112, 105, 100, 108, 121 >>)

\* ClassifyTrend with the thresholds themselves excluded from "rising"
ClassifyTrendStrict(b) ==
    IF b[1] * 1000 > 60 * b[2] THEN RisingRapidlyText
    ELSE IF b[1] * 1000 > 20 * b[2] THEN RisingSlowlyText
    ELSE IF b[1] * 1000 > -20 * b[2] THEN SteadyText
    ELSE IF b[1] * 1000 > -60 * b[2] THEN FallingSlowlyLabel
    ELSE FallingRapidlyText

\* the comparisons of a numeric bar_trend b = n/d with 0.060, 0.020,
\* -0.020 and -0.060
ClassifyTrend(b) ==
    IF b[1] * 1000 >= 60 * b[2] THEN RisingRapidlyText
    ELSE IF b[1] * 1000 >= 20 * b[2] THEN RisingSlowlyText
    ELSE IF b[1] * 1000 > -20 * b[2] THEN SteadyText
    ELSE IF b[1] * 1000 > -60 * b[2] THEN FallingSlowlyLabel
    ELSE FallingRapidlyText

\* str(v).lower().replace(" ", "_") for a text v
LowerUnderscore(v) ==
    Str([i \in 1..Len(Chars(v)) |->
            LET c == Chars(v)[i]
            IN  IF c \in 65..90 THEN c + 32 ELSE IF c = 32 THEN 95 ELSE c])

TrackingText == Str(<< 116, 114, 97, 99, 107, 105, 110, 103 >>)
SynchedText == Str(<< 115, 121, 110, 99, 104, 101, 100 >>)
ScanningText == Str(<< 115, 99, 97, 110, 110, 105, 110, 103 >>)

\* RxStateValue with the labels of codes 1 and 2 exchanged
RxStateValueSwapped(rec, tag) ==
    LET rx_state == Get(rec, "RX_STATE")
    IN  IF IsNone(rx_state) THEN None
        ELSE IF rx_state = Num(0) THEN TrackingText
        ELSE IF rx_state = Num(1) THEN ScanningText
        ELSE IF rx_state = Num(2) THEN SynchedText
        ELSE Get(rec, tag)

\* the RX_state branch
RxStateValue(rec, tag) ==
    LET rx_state == Get(rec, "RX_STATE")
    IN  IF IsNone(rx_state) THEN None
        ELSE IF rx_state = Num(0) THEN TrackingText
        ELSE IF rx_state = Num(1) THEN SynchedText
        ELSE IF rx_state = Num(2) THEN ScanningText
        ELSE Get(rec, tag)

\* the keys native_value does not answer with the stored value
ConvertedKeys == {"WindDir", "WindGustDir", "BarTrend", "RX_state", "Pm10"}

\* native_value of an entity with description desc over the transmitter
\* record rec = coordinator.data[tx_id]: [err, val]
NativeValue(desc, rec) ==
    LET ok(v)    == [err |-> "none", val |-> v]
        raise(e) == [err |-> e, val |-> None]
    IN  IF desc.key \notin ConvertedKeys THEN ok(Get(rec, desc.tag))
        ELSE IF desc.tag \in {"WIND_DIR", "WIND_GUST_DIR"}
        THEN IF ~Has(rec, desc.tag) THEN raise("KeyError")
             ELSE IF IsNone(rec[desc.tag]) THEN ok(None)
             ELSE LET f == FloatOf(rec[desc.tag])
                  IN  IF f.err # "none" THEN raise(f.err)
                      ELSE ok(directions[CompassIndex(f.val) + 1])
        ELSE IF desc.key = "RX_state" THEN ok(RxStateValue(rec, desc.tag))
        ELSE IF desc.key = "BarTrend"
        THEN LET bar_trend == Get(rec, desc.tag)
             IN  IF IsNone(bar_trend) THEN ok(None)
                 ELSE IF is_float(bar_trend)
                      THEN IF IsNum(bar_trend) THEN ok(ClassifyTrend(bar_trend))
                           ELSE raise("TypeError")   \* str >= float
                      ELSE ok(LowerUnderscore(bar_trend))
        ELSE ok(None)

----------------------------------------------------------------------------
(* The fetch cycle: async_fetch under the update coordinator               *)

\* Published with outdata handed over as it stood when the pass raised
PublishedPartial(r) == r.out

\* Published with the new outdata laid over the previous snapshot
PublishedMerged(r) ==
    IF r.err \/ data = NoData THEN (IF r.err THEN data ELSE r.out)
    ELSE [top |-> r.out.top,
          tx |-> [t \in DOMAIN data.tx \cup DOMAIN r.out.tx |->
                    IF t \notin DOMAIN r.out.tx THEN data.tx[t]
                    ELSE IF t \notin DOMAIN data.tx THEN r.out.tx[t]
                    ELSE [k \in DOMAIN data.tx[t] \cup DOMAIN r.out.tx[t] |->
                            IF k \in DOMAIN r.out.tx[t] THEN r.out.tx[t][k]
                            ELSE data.tx[t][k]]]]

\* what the coordinator publishes after _preprocess returned or raised
Published(r) == IF r.err THEN data ELSE r.out

\* CycleOutcome with a failed request clearing the snapshot
CycleOutcomeClearing(kind, p) ==
    CASE kind = "json" ->
            IF pc = "unloaded"
            THEN [data |-> data, lus |-> FALSE, exc |-> "KeyError", current |-> current]
            ELSE LET r == PreprocessFor(api_version, p, primary_tx_id)
                 IN  [data |-> IF r.err THEN data ELSE r.out, lus |-> ~r.err,
                      exc |-> r.exc, current |-> p]
      [] kind = "http_error" ->
            [data |-> NoData, lus |-> FALSE, exc |-> "UpdateFailed", current |-> current]
      [] kind = "timeout" ->
            [data |-> NoData, lus |-> FALSE, exc |-> "TimeoutError", current |-> current]

\* the cycle of a 2xx answer p whose pass ended as r
Refreshed(r, p) ==
    [data |-> Published(r), lus |-> ~r.err, exc |-> r.exc, current |-> p]

\* the result of one cycle: the new coordinator.data, last_update_success,
\* last_exception and hass.data[...]["current"].  kind is how the request
\* ended: "json" (a 2xx answer carrying payload p), "http_error"
\* (ClientResponseError) or "timeout".
CycleOutcome(kind, p) ==
    CASE kind = "json" ->
            IF pc = "unloaded"
            THEN \* the entry was popped from hass.data: line 680 raises KeyError
                 [data |-> data, lus |-> FALSE, exc |-> "KeyError", current |-> current]
            ELSE Refreshed(PreprocessFor(api_version, p, primary_tx_id), p)
      [] kind = "http_error" ->
            [data |-> data, lus |-> FALSE, exc |-> "UpdateFailed", current |-> current]
      [] kind = "timeout" ->
            [data |-> data, lus |-> FALSE, exc |-> "TimeoutError", current |-> current]

\* CoordinatorExists with the stored coordinator never found
CoordinatorNeverFound == FALSE

\* CoordinatorExists with the stored coordinator found by the first
\* platform only
CoordinatorFoundOnce == has_coordinator /\ \A p \in PLATFORMS : platform_pc[p] = "idle"

\* "coordinator" in hass.data[DOMAIN][entry.entry_id]
CoordinatorExists == has_coordinator

\* the rest of a platform's async_setup_entry once get_coordinator returned
PlatformFinish(p, snap) ==
    LET e == SensorEntities(snap, sensors_metadata, primary_tx_id)
        ents == IF p = "sensor" /\ ~e.err THEN e.list ELSE entities
        ppc == [platform_pc EXCEPT ![p] = "done"]
    IN  /\ platform_pc' = ppc
        /\ entities' = ents
        /\ timer' = IF ents # <<>> /\ timer = {} THEN {now + UPDATE_INTERVAL} ELSE timer
        /\ pc' = IF \A q \in PLATFORMS : ppc[q] = "done" THEN "loaded" ELSE pc

\* request r ends with outcome o; whoever awaited it goes on
Complete(r, o) ==
    /\ data' = o.data
    /\ last_update_success' = o.lus
    /\ last_exception' = o.exc
    /\ current' = o.current
    /\ UNCHANGED << api_version, native,
                    sensors_metadata, primary_tx_id, has_coordinator, now, avail >>
    /\ CASE r.by = "setup" ->
              \* get_coordinator returns; if not last_update_success: first refresh
              /\ requests' = IF o.lus THEN requests \ {r}
                             ELSE (requests \ {r}) \cup {[by |-> "first", started |-> now]}
              /\ pc' = IF o.lus THEN "forward" ELSE "first_refresh"
              /\ UNCHANGED << platform_pc, entities, timer >>
         [] r.by = "first" ->
              /\ requests' = requests \ {r}
              /\ pc' = IF o.lus THEN "forward" ELSE "not_ready"
              /\ UNCHANGED << platform_pc, entities, timer >>
         [] r.by = "timer" ->
              /\ requests' = requests \ {r}
              /\ timer' = IF entities # <<>> /\ pc # "unloaded"
                          THEN {now + UPDATE_INTERVAL} ELSE timer
              /\ UNCHANGED << pc, platform_pc, entities >>
         [] r.by \in PLATFORMS ->
              /\ requests' = requests \ {r}
              /\ PlatformFinish(r.by, o.data)

NewRequest(by) == [by |-> by, started |-> now]

----------------------------------------------------------------------------
(* Actions *)

\* what async_setup_entry leaves in hass.data before get_coordinator: an
\* API v1 entry has primary_tx_id 1 and no sensors_metadata; an API v2 entry
\* has this station's sensors of the inventory and their primary_tx_id
EntryOf(choices) ==
    \/ /\ api_version = "api_v1"
       /\ sensors_metadata = <<>>
       /\ primary_tx_id = 1
    \/ /\ api_version = "api_v2"
       /\ \E all \in choices :
             /\ sensors_metadata = OwnSensors(all, 1)
             /\ primary_tx_id = PrimaryTxId(OwnSensors(all, 1))

ConfiguredEntry == EntryOf(AllSensorsChoices)

Init ==
    /\ ConfiguredEntry
    /\ has_coordinator = FALSE
    /\ data = NoData
    /\ last_update_success = TRUE
    /\ last_exception = "none"
    /\ current = NoPayload
    /\ requests = {}
    /\ pc = "setup"
    /\ platform_pc = [p \in PLATFORMS |-> "idle"]
    /\ entities = <<>>
    /\ timer = {}
    /\ now = StartTime
    /\ avail = <<>>
    /\ native = <<>>

\* async_setup_entry up to the await inside get_coordinator: hass.data is
\* reset, the coordinator is created and its first refresh is sent
SetupEntry ==
    /\ pc = "setup"
    /\ has_coordinator' = TRUE
    /\ data' = NoData
    /\ last_update_success' = TRUE
    /\ last_exception' = "none"
    /\ current' = NoPayload
    /\ requests' = requests \cup {NewRequest("setup")}
    /\ pc' = "initial_refresh"
    /\ platform_pc' = [p \in PLATFORMS |-> "idle"]
    /\ entities' = <<>>
    /\ UNCHANGED << api_version, native,
                    sensors_metadata, primary_tx_id, timer, now, avail >>

\* how an awaited request can end at time now: a 2xx answer ("json") or a
\* non-2xx answer ("http_error") before the timeout, or
\* async_timeout.timeout(10) expiring
EndKinds(r) ==
    IF now < r.started + FETCH_TIMEOUT THEN {"json", "http_error"}
    ELSE IF now = r.started + FETCH_TIMEOUT THEN {"timeout"}
    ELSE {}

\* the payloads a request ending in kind carries
PayloadsOf(kind, payloads) == IF kind = "json" THEN payloads ELSE {NoPayload}

\* an awaited async_fetch ends and its cycle completes
FetchEnds ==
    \E r \in requests : \E kind \in EndKinds(r) :
        \E p \in PayloadsOf(kind, CoordPayloadsFor(api_version)) :
            Complete(r, CycleOutcome(kind, p))

\* a platform's async_setup_entry: get_coordinator, then the entities
PlatformSetup(p) ==
    /\ pc = "forward"
    /\ platform_pc[p] = "idle"
    /\ IF CoordinatorExists
       THEN /\ PlatformFinish(p, data)
            /\ UNCHANGED << has_coordinator, data, last_update_success,
                            last_exception, requests >>
       ELSE /\ has_coordinator' = TRUE
            /\ data' = NoData
            /\ last_update_success' = TRUE
            /\ last_exception' = "none"
            /\ requests' = requests \cup {NewRequest(p)}
            /\ platform_pc' = [platform_pc EXCEPT ![p] = "refreshing"]
            /\ UNCHANGED << pc, entities, timer >>
    /\ UNCHANGED << api_version, native,
                    sensors_metadata, primary_tx_id, current, now, avail >>

\* the coordinator's refresh timer fires (update_interval)
TimerFires ==
    /\ pc \in {"forward", "loaded"}
    /\ now \in timer
    /\ timer' = {}
    /\ requests' = requests \cup {NewRequest("timer")}
    /\ UNCHANGED << api_version, native,
                    sensors_metadata, primary_tx_id, has_coordinator, data,
                    last_update_success, last_exception, current, pc,
                    platform_pc, entities, now, avail >>

Deadlines ==
    { r.started + FETCH_TIMEOUT : r \in requests } \cup
    (IF pc \in {"forward", "loaded"} THEN timer ELSE {})

\* time passes, up to the next deadline
Tick ==
    /\ \E d \in {FETCH_TIMEOUT, UPDATE_INTERVAL} :
          /\ now + d <= MaxNow
          /\ \A t \in Deadlines : now + d <= t
          /\ now' = now + d
    /\ UNCHANGED << api_version, native,
                    sensors_metadata, primary_tx_id, has_coordinator, data,
                    last_update_success, last_exception, current, requests, pc,
                    platform_pc, entities, timer, avail >>

\* the state machine reads an entity's availability
ReadAvailable ==
    /\ pc \in {"forward", "loaded"}
    /\ \E t \in { entities[i][1] : i \in 1..Len(entities) } :
          avail' = << t, Available(t) >>
    /\ UNCHANGED << api_version, native,
                    sensors_metadata, primary_tx_id, has_coordinator, data,
                    last_update_success, last_exception, current, requests, pc,
                    platform_pc, entities, timer, now >>

\* async_unload_entry: the platforms are unloaded and the entry's data popped
Unload ==
    /\ pc = "loaded"
    /\ pc' = "unloaded"
    /\ has_coordinator' = FALSE
    /\ current' = NoPayload
    /\ entities' = <<>>
    /\ timer' = {}
    /\ UNCHANGED << api_version, native,
                    sensors_metadata, primary_tx_id, data, last_update_success,
                    last_exception, requests, platform_pc, now, avail >>

\* the first refresh failed (ConfigEntryNotReady): setup is tried again
RetrySetup ==
    /\ pc = "not_ready"
    /\ pc' = "setup"
    /\ UNCHANGED << api_version, native,
                    sensors_metadata, primary_tx_id, has_coordinator, data,
                    last_update_success, last_exception, current, requests,
                    platform_pc, entities, timer, now, avail >>

Next ==
    \/ SetupEntry
    \/ FetchEnds
    \/ \E p \in PLATFORMS : PlatformSetup(p)
    \/ TimerFires
    \/ Tick
    \/ ReadAvailable
    \/ Unload
    \/ RetrySetup

Spec == Init /\ [][Next]_vars

(* The normalization runs: the first refresh of a new coordinator answered *)
(* with any payload of NormPayloads.                                       *)

\* the inventories of the normalization runs: one whose primary transmitter
\* is 1 and one whose primary transmitter is MaxTxId
NormSensorsChoices ==
    { << InvSensor("this", 37, Num(1), LsidOf(37)) >>,
      << InvSensor("other", 37, Num(1), LsidOf(37)),
         InvSensor("this", 37, Num(MaxTxId), LsidOf(37)),
         InvSensor("this", 323, None, LsidOf(323)) >> }

InitNorm ==
    /\ EntryOf(NormSensorsChoices)
    /\ has_coordinator = TRUE
    /\ data = NoData
    /\ last_update_success = TRUE
    /\ last_exception = "none"
    /\ current = NoPayload
    /\ requests = {[by |-> "setup", started |-> StartTime]}
    /\ pc = "initial_refresh"
    /\ platform_pc = [p \in PLATFORMS |-> "idle"]
    /\ entities = <<>>
    /\ timer = {}
    /\ now = StartTime
    /\ avail = <<>>
    /\ native = <<>>

NormFetchReturns ==
    \E r \in requests : \E p \in NormPayloadsFor(api_version) :
        /\ r.by = "setup"
        /\ Complete(r, CycleOutcome("json", p))

NextNorm == NormFetchReturns

SpecNorm == InitNorm /\ [][NextNorm]_vars

(* The readings: entities of one transmitter read native_value over a     *)
(* record that normalization can publish.                                  *)

MaxTurn == 2         \* wind directions reach from -360 to 360 * MaxTurn degrees
MaxTrend == 70       \* pressure trends reach from -MaxTrend to MaxTrend thousandths
MaxRxCode == 3       \* receiver state codes 0..MaxRxCode

\* wind directions: every sector boundary 11.25 + 22.5 k, every sector
\* centre, and the hundredth of a degree before and after each
DegreeValues ==
    { Rat(1125 * j + e, 100) : j \in (-32)..(32 * MaxTurn), e \in {-1, 0, 1} }

\* "264", "11.24" (API v1 delivers numbers as text) and "north"
WindTexts == { Str(<< 50, 54, 52 >>), Str(<< 49, 49, 46, 50, 52 >>), Str(<< 110, 111, 114, 116, 104 >>) }

TrendValues == { Rat(n, 1000) : n \in (-MaxTrend)..MaxTrend }

\* "Falling Rapidly", "Falling Slowly", "Steady", "Rising Slowly",
\* "Rising Rapidly"
TrendTexts ==
    { Str(<< 70, 97, 108, 108, 105, 110, 103, 32, 82, 97, 112, 105, 100, 108, 121 >>), FallingSlowlyText, Str(<< 83, 116, 101, 97, 100, 121 >>), Str(<< 82, 105, 115, 105, 110, 103, 32, 83, 108, 111, 119, 108, 121 >>),
      Str(<< 82, 105, 115, 105, 110, 103, 32, 82, 97, 112, 105, 100, 108, 121 >>) }

\* "0.07": a numeral delivered as text
NumeralText == Str(<< 48, 46, 48, 55 >>)

\* receiver states: the codes, a half, and the text "0"
RxValues == { Num(k) : k \in 0..MaxRxCode } \cup { << 1, 2 >>, Str(<< 48 >>) }

\* a transmitter record as the console rules fill it
ReadRecord ==
    [f \in {"TIMESTAMP", "TEMP_OUT", "WIND_DIR", "WIND_GUST_DIR", "BAR_TREND",
            "RX_STATE", "PM_10"} |->
        IF f = "TIMESTAMP" THEN Num(3540) ELSE IF f = "TEMP_OUT" THEN Num(72)
        ELSE Num(0)]

\* every value of field f, null, and the record without f
VariantsOf(f, values) ==
    { Put(ReadRecord, f, v) : v \in values \cup {None} }
    \cup { Without(ReadRecord, f) }

\* the records of the reads: the variants of each converted field, and the
\* empty record a pass leaves for the primary transmitter when the payload
\* has no record of it
ReadRecords ==
    { EmptyDict }
    \cup VariantsOf("WIND_DIR", DegreeValues \cup WindTexts)
    \cup VariantsOf("WIND_GUST_DIR", DegreeValues \cup WindTexts)
    \cup VariantsOf("BAR_TREND", TrendValues \cup TrendTexts \cup {NumeralText})
    \cup VariantsOf("RX_STATE", RxValues)

\* the keys of the entities that read
ReadKeys == ConvertedKeys \cup {"OutsideTemp"}

DescriptionOf(key) ==
    SENSOR_TYPES[CHOOSE i \in 1..Len(SENSOR_TYPES) : SENSOR_TYPES[i].key = key]

\* the entities of transmitter 1 the sensor platform adds for an entry of
\* the given version, in the order of SENSOR_TYPES
ReadEntities(version) ==
    LET idx == { i \in 1..Len(SENSOR_TYPES) :
                   /\ SENSOR_TYPES[i].key \in ReadKeys
                   /\ ~(version = "api_v1" /\ SENSOR_TYPES[i].xv1) }
        nth(k) == CHOOSE i \in idx : Cardinality({ j \in idx : j < i }) = k - 1
    IN  [k \in 1..Cardinality(idx) |-> << 1, SENSOR_TYPES[nth(k)].key >>]

InitValue ==
    /\ api_version \in {"api_v1", "api_v2"}
    /\ sensors_metadata = <<>>
    /\ primary_tx_id = 1
    /\ has_coordinator = TRUE
    /\ data \in { [top |-> EmptyDict, tx |-> Put([x \in {} |-> EmptyDict], 1, rec)] :
                    rec \in ReadRecords }
    /\ last_update_success = TRUE
    /\ last_exception = "none"
    /\ current = NoPayload
    /\ requests = {}
    /\ pc = "loaded"
    /\ platform_pc = [p \in PLATFORMS |-> "done"]
    /\ entities = ReadEntities(api_version)
    /\ timer = {}
    /\ now = StartTime
    /\ avail = <<>>
    /\ native = <<>>

\* the state machine reads an entity's state:
\* << tx_id, key, exception raised or "none", value >>
ReadNativeValue ==
    /\ pc \in {"forward", "loaded"}
    /\ \E i \in 1..Len(entities) :
          LET tx   == entities[i][1]
              desc == DescriptionOf(entities[i][2])
              r    == IF data = NoData THEN [err |-> "TypeError", val |-> None]
                      ELSE IF tx \notin DOMAIN data.tx
                           THEN [err |-> "KeyError", val |-> None]
                           ELSE NativeValue(desc, data.tx[tx])
          IN  native' = << tx, desc.key, r.err, r.val >>
    /\ UNCHANGED << api_version,
                    sensors_metadata, primary_tx_id, has_coordinator, data,
                    last_update_success, last_exception, current, requests, pc,
                    platform_pc, entities, timer, now, avail >>

NextValue == ReadNativeValue

SpecValue == InitValue /\ [][NextValue]_vars

----------------------------------------------------------------------------
(* The platform setups: a coordinator whose initial refresh has published  *)
(* a snapshot, and the platforms set up over it in either order.           *)

\* the inventories of the platform setups: one console; two consoles; a
\* console and a leaf/soil station that share a transmitter id beside the
\* primary console; a console with an AirLink; an AirLink whose lsid is the
\* other console's transmitter id; two sensors on the primary transmitter;
\* an AirLink whose lsid is the primary transmitter id
SetupSensorsChoices ==
    { << InvSensor("this", 37, Num(1), LsidOf(37)) >>,
      << InvSensor("this", 37, Num(1), LsidOf(37)),
         InvSensor("this", 37, Num(MaxTxId), LsidOf(37)) >>,
      << InvSensor("this", 37, Num(1), LsidOf(37)),
         InvSensor("this", 37, Num(MaxTxId), LsidOf(37)),
         InvSensor("this", 56, Num(MaxTxId), LsidOf(56)) >>,
      << InvSensor("this", 37, Num(1), LsidOf(37)),
         InvSensor("this", 323, None, LsidOf(323)) >>,
      << InvSensor("this", 37, Num(1), LsidOf(37)),
         InvSensor("this", 37, Num(MaxTxId), LsidOf(37)),
         InvSensor("this", 323, None, MaxTxId) >>,
      << InvSensor("this", 37, Num(1), LsidOf(37)),
         InvSensor("this", 55, Num(1), LsidOf(55)) >>,
      << InvSensor("this", 37, Num(1), LsidOf(37)),
         InvSensor("this", 323, None, 1) >> }

\* the payloads of the platform setups: the consoles of transmitters 1 and
\* MaxTxId, alone and together, and with an AirLink of each lsid
SetupPayloads ==
    { Payload(<< FullSensor(37, 23, LsidOf(37), 1, 3540, 18) >>),
      Payload(<< FullSensor(37, 23, LsidOf(37), 1, 3540, 18),
                 FullSensor(37, 23, LsidOf(37), MaxTxId, 3540, 3) >>),
      Payload(<< FullSensor(37, 23, LsidOf(37), 1, 3540, 18),
                 FullSensor(37, 23, LsidOf(37), MaxTxId, 3540, 3),
                 FullSensor(56, 12, LsidOf(56), MaxTxId, 3540, 3) >>),
      Payload(<< FullSensor(37, 23, LsidOf(37), 1, 3540, 18),
                 FullSensor(323, 16, LsidOf(323), 1, 3540, 3) >>),
      Payload(<< FullSensor(37, 23, LsidOf(37), 1, 3540, 18),
                 FullSensor(37, 23, LsidOf(37), MaxTxId, 3540, 3),
                 FullSensor(323, 16, MaxTxId, 1, 3540, 3) >>),
      Payload(<< FullSensor(37, 23, LsidOf(37), 1, 3540, 18),
                 FullSensor(323, 16, 1, 1, 3540, 3) >>) }

SetupPayloadsFor(version) ==
    IF version = "api_v1"
    THEN { V1Full(Rfc(1970, 1, 1, 0, 59, 0, 0), 18), V1Full(Rfc(1970, 1, 1, 1, 0, 0, 60), 3) }
    ELSE SetupPayloads

\* the refresh answered with p has published the snapshot of pass r
SnapshotLoaded(r, p) == ~r.err /\ data = r.out /\ current = p

InitSetup ==
    /\ EntryOf(SetupSensorsChoices)
    /\ has_coordinator = TRUE
    /\ \E p \in SetupPayloadsFor(api_version) :
          SnapshotLoaded(PreprocessFor(api_version, p, primary_tx_id), p)
    /\ last_update_success = TRUE
    /\ last_exception = "none"
    /\ requests = {}
    /\ pc = "forward"
    /\ platform_pc = [p \in PLATFORMS |-> "idle"]
    /\ entities = <<>>
    /\ timer = {}
    /\ now = StartTime
    /\ avail = <<>>
    /\ native = <<>>

NextSetup == \E p \in PLATFORMS : PlatformSetup(p)

SpecSetup == InitSetup /\ [][NextSetup]_vars

\* "-{tx_id}" for an entity of another transmitter than the primary one
TxIdPart(tx) == IF tx # primary_tx_id THEN "-" \o ToString(tx) ELSE ""

\* get_unique_id_base: the station's DID ("001D0A00") under API v1, its
\* uuid under API v2
UniqueIdBase ==
    IF api_version = "api_v1" THEN "001D0A00" ELSE ToString(StationUuid[1])

\* _attr_unique_id of the entity of description key on transmitter tx
UniqueId(tx, key) == UniqueIdBase \o TxIdPart(tx) \o "-" \o key

----------------------------------------------------------------------------
(* Properties of the normalization pass (checked under SpecNorm)           *)

\* the payload of the pass that has run, and its sensor records
PassRan == api_version = "api_v2" /\ current # NoPayload
PassOk == PassRan /\ last_exception = "none" /\ data # NoData
Recs == IF PassRan THEN current.sensors ELSE <<>>

\* the record has a (sensor_type, data_structure_type) some rule handles
Recognized(s) == \E i \in 1..Len(Rules) : Matches(s, Rules[i])

\* the record on its own, in a fresh pass, raises
Malformed(s) ==
    /\ Recognized(s)
    /\ ApplySensor(InitialOut(current, primary_tx_id), s, primary_tx_id, 1).err

\* the transmitter id the resolution rules name for a record: tx_id when the
\* data carries it, else lsid for AirLink, else the primary transmitter id
ClaimedTx(s) ==
    IF Has(s.data, "tx_id") THEN s.data["tx_id"][1]
    ELSE IF s.sensor_type \in SENSOR_TYPE_AIRLINK /\ s.data_structure_type = 16
         THEN s.lsid
         ELSE primary_tx_id

\* outdata after the first n records of the payload
OutAfter(n) ==
    SensorLoop(InitialOut(current, primary_tx_id), SubSeq(Recs, 1, n),
               primary_tx_id, 1).out

\* C1: when exactly one record of a payload is malformed, the pass still
\* produces a snapshot and every other recognized record of the payload has
\* its transmitter record in it.
C1_ErrorConfinedToRecord ==
    PassRan =>
        LET bad == { i \in 1..Len(Recs) : Malformed(Recs[i]) }
            good == { i \in 1..Len(Recs) : Recognized(Recs[i]) /\ i \notin bad }
        IN  (Cardinality(bad) = 1 /\ good # {}) =>
                /\ data # NoData
                /\ \A i \in good :
                      /\ ClaimedTx(Recs[i]) \in DOMAIN data.tx
                      /\ DOMAIN data.tx[ClaimedTx(Recs[i])] # {}

\* C2: in a successful pass every recognized record changes no transmitter
\* record other than the one of its resolved id (tx_id, else lsid for
\* AirLink, else the primary transmitter id).
C2_WritesOnlyResolvedTx ==
    PassOk =>
        \A i \in 1..Len(Recs) :
            Recognized(Recs[i]) =>
                LET before == OutAfter(i - 1)
                    after == OutAfter(i)
                IN  \A t \in DOMAIN after.tx :
                        t # ClaimedTx(Recs[i]) =>
                            /\ t \in DOMAIN before.tx
                            /\ after.tx[t] = before.tx[t]

\* C3: in every published snapshot, a transmitter record holding any field
\* holds a timestamp.
C3_TimestampWithData ==
    data # NoData =>
        \A t \in DOMAIN data.tx :
            DOMAIN data.tx[t] # {} => Has(data.tx[t], "TIMESTAMP")

\* the record at position i is a console record of structure ds
Console(s, ds) ==
    s.sensor_type \in SENSOR_TYPE_VUE_AND_VANTAGE_PRO /\ s.data_structure_type = ds

LeafSoil(s) == s.sensor_type = 56 /\ s.data_structure_type \in {12, 25}

\* the upstream rainfall accumulation fields of console structure ds and the
\* snapshot fields they are stored in
RainFields(ds) ==
    IF ds = 10
    THEN { << "rainfall_daily_in", "RAIN_DAY" >>,
           << "rainfall_last_15_min_in", "RAIN_DAY_15M" >>,
           << "rainfall_last_60_min_in", "RAIN_DAY_60M" >>,
           << "rainfall_last_24_hr_in", "RAIN_DAY_24H" >>,
           << "rain_storm_in", "RAIN_STORM" >>,
           << "rain_storm_last_in", "RAIN_STORM_LAST" >> }
    ELSE { << "rainfall_day_in", "RAIN_DAY" >>,
           << "rainfall_last_15_min_in", "RAIN_DAY_15M" >>,
           << "rainfall_last_60_min_in", "RAIN_DAY_60M" >>,
           << "rainfall_last_24_hr_in", "RAIN_DAY_24H" >>,
           << "rain_storm_current_in", "RAIN_STORM" >>,
           << "rain_storm_last_in", "RAIN_STORM_LAST" >> }

\* the optional state and timestamp fields and the snapshot fields they are
\* stored in
StateFields ==
    { << "rx_state", "RX_STATE" >>,
      << "trans_battery_flag", "TRANS_BATTERY_FLAG" >>,
      << "rain_storm_start_time", "RAIN_STORM_START" >>,
      << "rain_storm_current_start_at", "RAIN_STORM_START" >>,
      << "rain_storm_last_start_at", "RAIN_STORM_LAST_START" >>,
      << "rain_storm_last_end_at", "RAIN_STORM_LAST_END" >> }

\* the payload held exactly one record, s, and the pass succeeded
OnlyRecord(s) == PassOk /\ Recs = << s >>

C6_RainAbsentOrNullIsZero ==
    \A ds \in {10, 23} :
        \A i \in 1..Len(Recs) :
            (Console(Recs[i], ds) /\ OnlyRecord(Recs[i])) =>
                LET s == Recs[i]
                    rec == data.tx[s.data["tx_id"][1]]
                IN  \A f \in RainFields(ds) :
                        (~Has(s.data, f[1]) \/ IsNone(Get(s.data, f[1])))
                            => (Has(rec, f[2]) /\ rec[f[2]] = Num(0))

\* C7: an optional state or timestamp field (rx_state, trans_battery_flag,
\* rain-storm start and end timestamps) missing from the data of a recognized
\* record is not stored as 0 in the snapshot.
C7_MissingStateFieldNotZero ==
    \A i \in 1..Len(Recs) :
        (Recognized(Recs[i]) /\ OnlyRecord(Recs[i])) =>
            LET s == Recs[i]
            IN  \A f \in StateFields :
                    ( /\ f[1] \in DataFields(s.sensor_type, s.data_structure_type)
                      /\ ~Has(s.data, f[1]) )
                    => \A t \in DOMAIN data.tx :
                           ~(Has(data.tx[t], f[2]) /\ data.tx[t][f[2]] = Num(0))

----------------------------------------------------------------------------
(* Properties of the coordinator life cycle (checked under Spec)           *)

\* the transmitter ids entities were created for
EntityTxIds == { entities[i][1] : i \in 1..Len(entities) }

\* T's record has a timestamp less than 60 minutes old
FreshTimestamp(t) ==
    LET ts == Get(data.tx[t], "TIMESTAMP")
    IN  ~IsNone(ts) /\ (now * ts[2] - ts[1]) < 60 * 60 * ts[2]

\* C4: for an entity of transmitter T whose record is in the snapshot of a
\* successful last update, the availability check answers true exactly when
\* T's record has a timestamp less than 60 minutes old, and answers false
\* (rather than raising) otherwise, in particular when there is no timestamp.
C4_AvailableIffFresh ==
    \A t \in EntityTxIds :
        (last_update_success /\ data # NoData /\ t \in DOMAIN data.tx) =>
            Available(t) = IF FreshTimestamp(t) THEN "true" ELSE "false"

\* a cycle ended in this step
CycleEnded == requests \ requests' # {}

\* a cycle ended in this step because of a timeout or a non-2xx answer
FetchFailed ==
    CycleEnded /\ last_exception' \in {"UpdateFailed", "TimeoutError"}

\* C8 (as stated): when a fetch times out or is answered non-2xx the update
\* has failed, the snapshot is unchanged, the failure starts no fetch, and
\* timer fetches start only when the poll timer is due.
C8_FailedFetchOnlyTimerRetry ==
    [][ /\ FetchFailed => /\ ~last_update_success'
                           /\ data' = data
                           /\ requests' \subseteq requests
        /\ \A r \in requests' \ requests : r.by = "timer" => now \in timer
      ]_vars

\* C8: when a fetch times out (which it does 10 s after it was sent) or is
\* answered non-2xx the update has failed and the snapshot is unchanged; if
\* the failed fetch was the initial refresh of a new coordinator, the first
\* refresh of async_setup_entry is sent at
\* once; otherwise no fetch is started by the failure, a failed timer fetch
\* re-arms the poll timer 5 minutes (300 s) later while entities listen,
\* timer fetches start only when the poll timer is due, and the first
\* refresh is sent only on a failed cycle.
C8_FailedFetch ==
    [][ /\ FetchFailed =>
              /\ ~last_update_success'
              /\ data' = data
              /\ \A r \in requests \ requests' :
                    /\ r.by = "setup" =>
                          requests' \ requests = {[by |-> "first", started |-> now]}
                    /\ r.by # "setup" => requests' \subseteq requests
                    /\ (r.by = "timer" /\ entities # <<>> /\ pc # "unloaded")
                          => timer' = {now + 300}
        /\ (CycleEnded /\ last_exception' = "TimeoutError")
              => \A r \in requests \ requests' : now = r.started + 10
        /\ \A r \in requests' \ requests :
              /\ r.by = "timer" => now \in timer
              /\ r.by = "first" => (CycleEnded /\ ~last_update_success')
      ]_vars

\* a timer fetch has failed: the snapshot is kept and the timer is re-armed
C8_Witness ==
    /\ pc = "loaded"
    /\ last_exception \in {"UpdateFailed", "TimeoutError"}
    /\ ~last_update_success
    /\ data # NoData
    /\ requests = {}
    /\ timer = {now + 300}

\* C9: at most one fetch is awaiting its answer at any time.
C9_SingleFetchInFlight == Cardinality(requests) <= 1

\* the first refresh of async_setup_entry is in flight after the initial
\* refresh failed
C9_Witness ==
    /\ pc = "first_refresh"
    /\ \E r \in requests : r.by = "first"
    /\ ~last_update_success

\* C10: whenever the published snapshot changes, it becomes the complete
\* result of a normalization pass that succeeded on the payload just
\* received (or the empty data of a newly created coordinator).
C10_NoPartialSnapshot ==
    [][ data' # data =>
            \/ (data' = NoData /\ pc = "setup")
            \/ /\ current' # NoPayload
               /\ ~PreprocessFor(api_version, current', primary_tx_id).err
               /\ data' = PreprocessFor(api_version, current', primary_tx_id).out
      ]_vars

\* a pass failed part-way, with outdata partly built, and the snapshot
\* published before it is still the coordinator's data
C10_Witness ==
    /\ last_exception = "KeyError"
    /\ current # NoPayload
    /\ data # NoData
    /\ PreprocessFor(api_version, current, primary_tx_id).err
    /\ \E t \in DOMAIN PreprocessFor(api_version, current, primary_tx_id).out.tx :
          DOMAIN PreprocessFor(api_version, current, primary_tx_id).out.tx[t] # {}
    /\ PreprocessFor(api_version, current, primary_tx_id).out # data

\* C11: after a successful fetch the snapshot is what normalization makes
\* of that fetch's payload alone, starting from an empty outdata: a
\* transmitter id or field the payload does not produce is not in it.
C11_SnapshotFromLastPayloadOnly ==
    (last_update_success /\ data # NoData /\ current # NoPayload) =>
        LET fresh == PreprocessFor(api_version, current, primary_tx_id)
        IN  /\ ~fresh.err
            /\ DOMAIN data.tx = DOMAIN fresh.out.tx
            /\ \A t \in DOMAIN data.tx : data.tx[t] = fresh.out.tx[t]
            /\ data.top = fresh.out.top

\* an entity exists for a transmitter an earlier snapshot held, and the
\* snapshot of the latest successful fetch has no record for it
C11_Witness ==
    /\ last_update_success /\ data # NoData /\ current # NoPayload
    /\ \E t \in EntityTxIds : t \notin DOMAIN data.tx

\* C12: an entity of a transmitter whose own record has a timestamp less
\* than 60 minutes old is available, whatever the timestamps of the other
\* transmitters are.
C12_FreshTransmitterAvailable ==
    \A a \in EntityTxIds :
        (last_update_success /\ data # NoData /\ a \in DOMAIN data.tx
            /\ FreshTimestamp(a))
        => Available(a) = "true"

\* an entity of a fresh transmitter was read available while another
\* transmitter with entities is stale
C12_Witness ==
    /\ last_update_success /\ data # NoData
    /\ \E a \in EntityTxIds, b \in EntityTxIds :
          /\ a # b
          /\ a \in DOMAIN data.tx /\ b \in DOMAIN data.tx
          /\ FreshTimestamp(a)
          /\ Has(data.tx[b], "TIMESTAMP") /\ ~FreshTimestamp(b)
          /\ avail = << a, "true" >>

\* the record's (sensor_type, data_structure_type) pair is in no row of the
\* dispatch table
NoRuleFor(s) ==
    \A i \in 1..Len(Rules) :
        ~(s.sensor_type \in Rules[i].types /\ s.data_structure_type = Rules[i].ds)

\* the payload of the pass without its i-th record
PayloadWithout(i) ==
    [current EXCEPT !.sensors = SubSeq(Recs, 1, i - 1) \o SubSeq(Recs, i + 1, Len(Recs))]

\* C13: a record whose (sensor_type, data_structure_type) pair matches no
\* rule raises nothing and contributes nothing: the pass ends as the pass
\* over the same payload without that record does, with the same snapshot.
C13_UnrecognizedSkipped ==
    PassRan =>
        \A i \in 1..Len(Recs) :
            NoRuleFor(Recs[i]) =>
                LET r == Preprocess(PayloadWithout(i), primary_tx_id)
                IN  IF r.err
                    THEN last_exception = "KeyError" /\ data = NoData
                    ELSE last_exception = "none" /\ data = r.out

\* a pass over an unrecognized record and a recognized one has succeeded
C13_Witness ==
    /\ PassOk
    /\ \E i \in 1..Len(Recs), j \in 1..Len(Recs) :
          /\ NoRuleFor(Recs[i])
          /\ ~NoRuleFor(Recs[j])
          /\ DOMAIN data.tx[ClaimedTx(Recs[j])] # {}

\* days from 1970-01-01 to the civil date y-m-d, by the era/day-of-era
\* closed form (years of 400-year eras starting on March 1st)
DaysFromCivil(y, m, d) ==
    LET yy  == IF m <= 2 THEN y - 1 ELSE y
        era == yy \div 400
        yoe == yy - era * 400
        mp  == IF m > 2 THEN m - 3 ELSE m + 9
        doy == ((153 * mp + 2) \div 5) + d - 1
        doe == yoe * 365 + (yoe \div 4) - (yoe \div 100) + doy
    IN  era * 146097 + doe - 719468

\* the epoch seconds of an RFC-822 date
EpochOf(v) ==
    LET f == RfcFields(v)
    IN  DaysFromCivil(f.year, f.month, f.day) * 86400
        + f.hour * 3600 + f.minute * 60 + f.second - f.zone * 60

\* an API v1 pass over a payload with davis_current_observation and an
\* RFC-822 observation time
V1PassOverDated ==
    /\ api_version = "api_v1"
    /\ current # NoPayload
    /\ Has(current, DCO)
    /\ Has(current, "observation_time_rfc822")
    /\ IsRfc(current["observation_time_rfc822"])

\* C14: with API v1, a payload that has davis_current_observation and an
\* RFC-822 observation time normalizes to a snapshot with exactly one
\* transmitter id, 1, whose TIMESTAMP is that date in epoch seconds.
C14_V1SingleTransmitterWithEpoch ==
    V1PassOverDated =>
        /\ last_update_success
        /\ data # NoData
        /\ DOMAIN data.tx = {1}
        /\ Has(data.tx[1], "TIMESTAMP")
        /\ data.tx[1]["TIMESTAMP"] = Num(EpochOf(current["observation_time_rfc822"]))

\* the pass over "Thu, 29 Feb 2024 12:30:15 +0530" has published 07:00:15 UTC
\* of that day
C14_Witness ==
    /\ V1PassOverDated
    /\ current["observation_time_rfc822"] = Rfc(2024, 2, 29, 12, 30, 15, 330)
    /\ data # NoData
    /\ data.tx[1]["TIMESTAMP"] = Num(1709190015)

\* the values the AirLink record of the scenario carries
AirLinkValues == { Num(323), Num(16), Num(3541), Num(5), << 83, 10 >> }

\* record 2 holds the console's values and record 99 the AirLink's, neither
\* a value of the other
ScenarioRecords ==
    /\ {2, 99} \subseteq DOMAIN data.tx
    /\ data.tx[2]["SENSOR_TYPE"] = Num(37)
    /\ data.tx[2]["DATA_STRUCTURE"] = Num(23)
    /\ data.tx[2]["TIMESTAMP"] = Num(3540)
    /\ data.tx[2]["TEMP_OUT"] = Num(72)
    /\ data.tx[2]["WIND_DIR"] = Num(10)
    /\ \A f \in DOMAIN data.tx[2] : data.tx[2][f] \notin AirLinkValues
    /\ ~Has(data.tx[2], "PM_2P5")
    /\ data.tx[99]["SENSOR_TYPE"] = Num(323)
    /\ data.tx[99]["DATA_STRUCTURE"] = Num(16)
    /\ data.tx[99]["TIMESTAMP"] = Num(3541)
    /\ data.tx[99]["PM_2P5"] = << 83, 10 >>
    /\ \A f \in DOMAIN data.tx[99] : data.tx[99][f] \in AirLinkValues
    /\ ~Has(data.tx[99], "TEMP_OUT") /\ ~Has(data.tx[99], "WIND_DIR")

\* C15 as stated: the pass over the two-sensor payload yields a snapshot
\* whose transmitter ids are exactly {2, 99}, record 2 holding only the
\* console values and record 99 only the air-quality values.
C15_ScenarioExactlyTwoIds ==
    (PassRan /\ current \in ScenarioPayloads(TRUE) \cup ScenarioPayloads(FALSE)) =>
        /\ PassOk
        /\ DOMAIN data.tx = {2, 99}
        /\ ScenarioRecords

\* C15: when both records carry every field their structure reads, the pass
\* yields a snapshot whose transmitter ids are 2, 99 and the primary
\* transmitter id; record 2 holds only the console values, record 99 only
\* the air-quality values, and the primary's record is empty when the
\* primary is neither.  When the records carry the listed fields alone the
\* pass raises KeyError and publishes nothing.
C15_ScenarioIdsWithPrimary ==
    /\ (PassRan /\ current \in ScenarioPayloads(TRUE)) =>
          /\ PassOk
          /\ DOMAIN data.tx = {2, 99} \cup {primary_tx_id}
          /\ ScenarioRecords
          /\ primary_tx_id \notin {2, 99} => data.tx[primary_tx_id] = EmptyDict
    /\ (PassRan /\ current \in ScenarioPayloads(FALSE)) =>
          /\ last_exception = "KeyError"
          /\ data = NoData

\* the pass over the complete payload has run for an entry whose primary
\* transmitter is 1
C15_Witness ==
    /\ PassOk
    /\ current \in ScenarioPayloads(TRUE)
    /\ primary_tx_id = 1
    /\ DOMAIN data.tx = {1, 2, 99}

----------------------------------------------------------------------------
(* Properties of native_value (checked under SpecValue)                    *)

\* the entity with this key has been read; the record it was read from
WasRead(key) == native # <<>> /\ native[2] = key
ReadFrom == data.tx[native[1]]

\* the sector k with 22.5 k <= deg + 11.25 - 360 m < 22.5 (k + 1) for a
\* whole number of turns m, deg = x[1] / x[2]
SectorOf(x) ==
    CHOOSE k \in 0..15 :
        \E m \in (-2)..(MaxTurn + 1) :
            LET q == 4 * x[1] + 45 * x[2] - 1440 * x[2] * m
            IN  90 * x[2] * k <= q /\ q < 90 * x[2] * (k + 1)

\* C16: the label of a wind-direction entity is
\* directions[floor(((deg + 11.25) mod 360) / 22.5)]: 0, 348.75 and 11.24
\* give n, 90 gives e, 180 gives s, 270 gives w, and deg + 360 gives the
\* label deg gives.
C16_CompassLabel ==
    \A key \in {"WindDir", "WindGustDir"} :
        LET desc == DescriptionOf(key)
        IN  (WasRead(key) /\ Has(ReadFrom, desc.tag) /\ IsNum(ReadFrom[desc.tag])) =>
                LET deg  == ReadFrom[desc.tag]
                    turn == Rat(deg[1] + 360 * deg[2], deg[2])
                IN  /\ native[3] = "none"
                    /\ native[4] = directions[SectorOf(deg) + 1]
                    /\ native[4] = NativeValue(desc, Put(ReadFrom, desc.tag, turn)).val
                    /\ deg \in {Num(0), Rat(34875, 100), Rat(1124, 100)} =>
                           native[4] = Str(<< 110 >>)
                    /\ deg = Num(90) => native[4] = Str(<< 101 >>)
                    /\ deg = Num(180) => native[4] = Str(<< 115 >>)
                    /\ deg = Num(270) => native[4] = Str(<< 119 >>)

\* the wind direction 348.75 has been read as "n"
C16_Witness ==
    /\ WasRead("WindDir")
    /\ Get(ReadFrom, "WIND_DIR") = Rat(34875, 100)
    /\ native[4] = Str(<< 110 >>)

\* a text with a letter in it
Descriptive(v) ==
    IsStr(v) /\ \E i \in 1..Len(Chars(v)) : Chars(v)[i] \in (65..90) \cup (97..122)

\* r is the text v with capitals made small and blanks made underscores
Normalized(v, r) ==
    /\ IsStr(r)
    /\ Len(r) = Len(v)
    /\ \A i \in 3..Len(v) :
          r[i] = IF v[i] \in 65..90 THEN v[i] + 32 ELSE IF v[i] = 32 THEN 95 ELSE v[i]

\* C17: a numeric trend t is rising_rapidly when t >= 0.060, rising_slowly
\* when 0.020 <= t < 0.060, steady when -0.020 < t < 0.020, falling_slowly
\* when -0.060 < t <= -0.020 and falling_rapidly when t <= -0.060; a
\* descriptive text is returned in small letters with underscores for
\* blanks; every trend of either kind gives a label and no error.
C17_TrendLabel ==
    WasRead("BarTrend") =>
        LET t == Get(ReadFrom, "BAR_TREND")
            k == IF IsNum(t) THEN 1000 * t[1] ELSE 0
            d == IF IsNum(t) THEN t[2] ELSE 1
        IN  /\ IsNum(t) =>
                 /\ native[3] = "none"
                 /\ k >= 60 * d => native[4] = Str(<< 114, 105, 115, 105, 110, 103, 95, 114, 97, 112, 105, 100, 108, 121 >>)
                 /\ (20 * d <= k /\ k < 60 * d) => native[4] = Str(<< 114, 105, 115, 105, 110, 103, 95, 115, 108, 111, 119, 108, 121 >>)
                 /\ (-20 * d < k /\ k < 20 * d) => native[4] = Str(<< 115, 116, 101, 97, 100, 121 >>)
                 /\ (-60 * d < k /\ k <= -20 * d) => native[4] = Str(<< 102, 97, 108, 108, 105, 110, 103, 95, 115, 108, 111, 119, 108, 121 >>)
                 /\ k <= -60 * d => native[4] = Str(<< 102, 97, 108, 108, 105, 110, 103, 95, 114, 97, 112, 105, 100, 108, 121 >>)
            /\ Descriptive(t) =>
                 /\ native[3] = "none"
                 /\ Normalized(t, native[4])
                 /\ t = Str(<< 70, 97, 108, 108, 105, 110, 103, 32, 82, 97, 112, 105, 100, 108, 121 >>) => native[4] = Str(<< 102, 97, 108, 108, 105, 110, 103, 95, 114, 97, 112, 105, 100, 108, 121 >>)

\* the trend 0.060 has been read as rising_rapidly
C17_Witness ==
    /\ WasRead("BarTrend")
    /\ Get(ReadFrom, "BAR_TREND") = Rat(60, 1000)
    /\ native[4] = RisingRapidlyText

\* C20: the receiver-state entity reads code 0 as tracking, 1 as synched
\* and 2 as scanning, any other code that is not null as the code itself,
\* and None when the record has no receiver state.
C20_RxStateLabel ==
    WasRead("RX_state") =>
        LET code == Get(ReadFrom, "RX_STATE")
        IN  /\ native[3] = "none"
            /\ code = Num(0) => native[4] = Str(<< 116, 114, 97, 99, 107, 105, 110, 103 >>)
            /\ code = Num(1) => native[4] = Str(<< 115, 121, 110, 99, 104, 101, 100 >>)
            /\ code = Num(2) => native[4] = Str(<< 115, 99, 97, 110, 110, 105, 110, 103 >>)
            /\ (~IsNone(code) /\ code \notin {Num(0), Num(1), Num(2)}) => native[4] = code
            /\ (~Has(ReadFrom, "RX_STATE") \/ IsNone(code)) => native[4] = None

\* the code 2 has been read as scanning
C20_Witness ==
    /\ WasRead("RX_state")
    /\ Get(ReadFrom, "RX_STATE") = Num(2)
    /\ native[4] = ScanningText

----------------------------------------------------------------------------
(* Properties of the setup (checked under Spec)                            *)

\* the indices of the inventory's console sensors that carry a tx_id
ConsolesWithTx ==
    { i \in 1..Len(sensors_metadata) :
        /\ sensors_metadata[i].sensor_type \in SENSOR_TYPE_VUE_AND_VANTAGE_PRO
        /\ sensors_metadata[i].tx_id # None }

\* C18: the primary transmitter id of an API v2 station is the smallest
\* tx_id that is not null among the sensors of this station's inventory
\* whose sensor_type is in SENSOR_TYPE_VUE_AND_VANTAGE_PRO, and 1 when there
\* is none; for an API v1 station it is 1.
C18_PrimaryIsSmallestConsoleTx ==
    IF api_version = "api_v1" THEN primary_tx_id = 1
    ELSE /\ \E all \in AllSensorsChoices :
               sensors_metadata = SelectSeq(all, LAMBDA x : x.station_id = "this")
         /\ IF ConsolesWithTx = {} THEN primary_tx_id = 1
            ELSE /\ \E i \in ConsolesWithTx :
                       sensors_metadata[i].tx_id = Num(primary_tx_id)
                 /\ \A i \in ConsolesWithTx :
                       primary_tx_id <= sensors_metadata[i].tx_id[1]

\* an entry is loaded whose inventory holds a sensor of another type with a
\* tx_id below that of the only console
C18_Witness ==
    /\ api_version = "api_v2"
    /\ pc = "loaded"
    /\ primary_tx_id = MaxTxId
    /\ \E i \in 1..Len(sensors_metadata) :
          /\ i \notin ConsolesWithTx
          /\ sensors_metadata[i].tx_id # None
          /\ sensors_metadata[i].tx_id[1] < primary_tx_id

----------------------------------------------------------------------------
(* Degree days (checked under SpecNorm)                                    *)

\* the upstream degree-day fields of a structure-23 console record with the
\* snapshot fields of their Fahrenheit and Celsius values
DegreeDayFields ==
    { << "hdd_day", "HDDF_DAY", "HDDC_DAY" >>,
      << "cdd_day", "CDDF_DAY", "CDDC_DAY" >> }

\* the structure-23 console records of the payload written to transmitter t
ConsolesOf(t) ==
    { i \in 1..Len(Recs) : Console(Recs[i], 23) /\ ClaimedTx(Recs[i]) = t }

\* C21: in a successful pass, every transmitter record holds the Celsius
\* degree-day field exactly when it holds the Fahrenheit field, the Celsius
\* value is the Fahrenheit value times 5/9, and a transmitter whose
\* structure-23 console records all carry a null degree-day value holds
\* neither field.
C21_DegreeDaysCelsius ==
    PassOk =>
        \A t \in DOMAIN data.tx : \A f \in DegreeDayFields :
            LET rec == data.tx[t]
            IN  /\ Has(rec, f[3]) <=> Has(rec, f[2])
                /\ Has(rec, f[2]) => rec[f[3]] = Rat(rec[f[2]][1] * 5, rec[f[2]][2] * 9)
                /\ ( /\ ConsolesOf(t) # {}
                     /\ \A i \in ConsolesOf(t) :
                           Has(Recs[i].data, f[1]) /\ IsNone(Recs[i].data[f[1]]) )
                   => ~Has(rec, f[2]) /\ ~Has(rec, f[3])

\* a console record with heating degree days 18 and null cooling degree
\* days has been normalized: 18 and 10 are stored, no cooling field is
C21_Witness ==
    /\ PassOk
    /\ \E t \in DOMAIN data.tx :
          /\ ConsolesOf(t) # {}
          /\ Has(data.tx[t], "HDDF_DAY") /\ data.tx[t]["HDDF_DAY"] = Num(18)
          /\ Has(data.tx[t], "HDDC_DAY") /\ data.tx[t]["HDDC_DAY"] = Num(10)
          /\ \E i \in ConsolesOf(t) :
                Has(Recs[i].data, "cdd_day") /\ IsNone(Recs[i].data["cdd_day"])
          /\ ~Has(data.tx[t], "CDDF_DAY") /\ ~Has(data.tx[t], "CDDC_DAY")

----------------------------------------------------------------------------
(* Merging of records (checked under SpecNorm)                             *)

\* the transmitter records a sensor record writes when it is the only
\* record of a pass
Alone(s) == ApplySensor(InitialOut(current, primary_tx_id), s, primary_tx_id, 1).out.tx

\* record a with the fields of record b written over it
Overwritten(a, b) ==
    [k \in DOMAIN a \cup DOMAIN b |-> IF k \in DOMAIN b THEN b[k] ELSE a[k]]

\* the transmitter records before a sensor record, each overwritten field
\* by field with what the sensor record writes
MergedInto(before, alone) ==
    [t \in DOMAIN before \cup DOMAIN alone |->
        Overwritten(IF t \in DOMAIN before THEN before[t] ELSE EmptyDict,
                    IF t \in DOMAIN alone THEN alone[t] ELSE EmptyDict)]

\* the recognized records of the payload from position i on, merged in
\* input order into the transmitter records tx
RECURSIVE MergedAll(_, _)
MergedAll(tx, i) ==
    IF i > Len(Recs) THEN tx
    ELSE IF Recognized(Recs[i]) THEN MergedAll(MergedInto(tx, Alone(Recs[i])), i + 1)
         ELSE MergedAll(tx, i + 1)

\* C22: the snapshot of a successful pass is its recognized records merged
\* field by field in input order: every field a record writes holds that
\* record's value until a later record writes it, and every field only an
\* earlier record writes keeps the earlier record's value.
C22_MergedFieldByField ==
    PassOk => data.tx = MergedAll(InitialOut(current, primary_tx_id).tx, 1)

\* two records of the payload have written to one transmitter: a field
\* both write, with different values, and a field only the earlier writes
C22_Witness ==
    /\ PassOk
    /\ \E t \in DOMAIN data.tx : \E i, j \in 1..Len(Recs) :
          /\ i < j
          /\ Recognized(Recs[i]) /\ Recognized(Recs[j])
          /\ t \in DOMAIN Alone(Recs[i]) /\ t \in DOMAIN Alone(Recs[j])
          /\ \E k \in DOMAIN Alone(Recs[i])[t] \cap DOMAIN Alone(Recs[j])[t] :
                /\ Alone(Recs[i])[t][k] # Alone(Recs[j])[t][k]
                /\ data.tx[t][k] = Alone(Recs[j])[t][k]
          /\ \E k \in DOMAIN Alone(Recs[i])[t] \ DOMAIN Alone(Recs[j])[t] :
                data.tx[t][k] = Alone(Recs[i])[t][k]

----------------------------------------------------------------------------
(* Absent values (checked under SpecValue)                                 *)

\* C23: reading a compass entity (WindDir, WindGustDir) whose degree value
\* is missing from its transmitter's record, or null in it, returns None
\* and raises nothing.
C23_CompassFailsClosed ==
    ( /\ WasRead("WindDir") \/ WasRead("WindGustDir")
      /\ native[1] \in DOMAIN data.tx
      /\ IsNone(Get(ReadFrom, DescriptionOf(native[2]).tag)) )
    => native[3] = "none" /\ native[4] = None

----------------------------------------------------------------------------
(* Records without a transmitter id (checked under SpecNorm)               *)

\* the pass over the first n records of the payload: [err, out]
PassOver(n) ==
    SensorLoop(InitialOut(current, primary_tx_id), SubSeq(Recs, 1, n),
               primary_tx_id, 1)

\* the record is of a type written into the primary transmitter's record
TxLess(s) ==
    \/ s.sensor_type = 365 /\ s.data_structure_type = 21
    \/ s.sensor_type = 243 /\ s.data_structure_type = 12
    \/ s.sensor_type = 242 /\ s.data_structure_type \in {12, 19}

\* the record carries every field its rule reads
AllFields(s) == DataFields(s.sensor_type, s.data_structure_type) \subseteq DOMAIN s.data

\* the pass has reached record s with the primary transmitter's record in
\* place, and s, if written into that record and carrying its fields, is
\* written without failure
WritableAfter(before, s) ==
    ~before.err =>
        /\ primary_tx_id \in DOMAIN before.out.tx
        /\ (TxLess(s) /\ AllFields(s)) =>
               ~ApplySensor(before.out, s, primary_tx_id, 1).err

\* C24: in every pass over an API v2 payload the primary transmitter's
\* record exists before the first sensor record and before every later one
\* the pass reaches, and a record of type 365, 243 or 242 that carries its
\* fields is written without failure wherever it stands in the payload.
C24_PrimaryRecordExists ==
    PassRan => \A i \in 1..Len(Recs) : WritableAfter(PassOver(i - 1), Recs[i])

\* a payload whose first record is of type 365, 243 or 242 and which has no
\* console record of the primary transmitter has been normalized, and the
\* primary transmitter's record holds the fields of that first record
C24_Witness ==
    /\ PassOk
    /\ Len(Recs) >= 1
    /\ TxLess(Recs[1])
    /\ \A i \in 1..Len(Recs) :
          ~(Has(Recs[i].data, "tx_id") /\ Recs[i].data["tx_id"] = Num(primary_tx_id))
    /\ primary_tx_id # 1
    /\ DOMAIN data.tx[primary_tx_id] # {}

----------------------------------------------------------------------------
(* Dispatch (checked under SpecNorm)                                       *)

MaxSensorType == 400   \* sensor types 0..MaxSensorType
MaxStructure == 30     \* data structure types 0..MaxStructure

\* the rules whose condition a record of the given types meets
RulesFor(type, ds) ==
    { i \in 1..Len(Rules) :
        Matches([sensor_type |-> type, data_structure_type |-> ds], Rules[i]) }

\* the pairs of sensor type and data structure type that meet the
\* condition of more than one rule
PairsWithTwoRules ==
    { p \in (0..MaxSensorType) \X (0..MaxStructure) :
        Cardinality(RulesFor(p[1], p[2])) > 1 }

\* C25: for every pair of sensor type and data structure type at most one
\* rule's condition holds, and no record of a payload is mapped by two
\* rules.
C25_RulesMutuallyExclusive ==
    /\ PairsWithTwoRules = {}
    /\ \A i \in 1..Len(Recs) :
          Cardinality({ j \in 1..Len(Rules) : Matches(Recs[i], Rules[j]) }) <= 1

\* a payload with a record that one rule maps and a record that no rule
\* maps has been normalized
C25_Witness ==
    /\ PassOk
    /\ \E i, j \in 1..Len(Recs) :
          /\ Cardinality({ k \in 1..Len(Rules) : Matches(Recs[i], Rules[k]) }) = 1
          /\ DOMAIN data.tx[ClaimedTx(Recs[i])] # {}
          /\ ~Recognized(Recs[j])

----------------------------------------------------------------------------
(* One coordinator (checked under Spec)                                    *)

\* the step is async_setup_entry creating a coordinator
CoordinatorCreatedBySetup == pc = "setup" /\ pc' = "initial_refresh"

\* the step is the get_coordinator call of platform p returning
PlatformCalls(p) == pc = "forward" /\ platform_pc[p] = "idle" /\ platform_pc'[p] # "idle"

\* C26 as stated: no coordinator is created for an entry that had one
\* created before.
C26_OneCoordinatorEver ==
    [][CoordinatorCreatedBySetup => ~has_coordinator]_vars

\* C26, within one run of async_setup_entry: the coordinator is created by
\* the integration's call alone, which sends the initial refresh; every
\* platform's call finds that coordinator, creates none and sends no
\* refresh.  (A setup run again after a failed first refresh resets the
\* entry's data and creates a new coordinator.)
C26_OneCoordinatorPerSetup ==
    [][ /\ \A r \in requests' \ requests :
              /\ r.by \notin PLATFORMS
              /\ r.by = "setup" => CoordinatorCreatedBySetup
        /\ \A p \in PLATFORMS :
              PlatformCalls(p) =>
                  /\ has_coordinator /\ has_coordinator'
                  /\ platform_pc'[p] = "done"
                  /\ requests' = requests
                  /\ data' = data ]_vars

\* both platforms have called get_coordinator after the integration's
\* setup, and entities were added
C26_Witness ==
    /\ pc = "loaded"
    /\ has_coordinator
    /\ \A p \in PLATFORMS : platform_pc[p] = "done"
    /\ requests = {}
    /\ entities # <<>>

----------------------------------------------------------------------------
(* The stored raw payload (checked under Spec)                             *)

\* the pass over the stored raw payload succeeds and gives the snapshot
SnapshotOf(r) == ~r.err /\ r.out = data

\* C27: while the entry is set up, a published snapshot is the
\* normalization of the raw payload stored under "current".
C27_CurrentIsSnapshotSource ==
    (has_coordinator /\ pc # "unloaded" /\ data # NoData) =>
        /\ current # NoPayload
        /\ SnapshotOf(PreprocessFor(api_version, current, primary_tx_id))

----------------------------------------------------------------------------
(* Entity setup (checked under Spec)                                       *)

\* the sensor platform's setup is about to run over the published snapshot
SensorSetupDue ==
    pc = "forward" /\ platform_pc["sensor"] = "idle" /\ has_coordinator /\ data # NoData

\* C28: whenever the sensor platform's setup runs over a snapshot, it
\* completes without a missing-key failure, whatever the inventory.
C28_SetupFindsEveryTransmitter ==
    SensorSetupDue => ~SensorEntities(data, sensors_metadata, primary_tx_id).err

----------------------------------------------------------------------------
(* Unique ids (checked under SpecSetup)                                    *)

\* C29: the entities one sensor-platform setup has added have pairwise
\* distinct unique ids.
C29_UniqueIdsDistinct ==
    \A i, j \in 1..Len(entities) :
        i < j => UniqueId(entities[i][1], entities[i][2])
                    # UniqueId(entities[j][1], entities[j][2])

----------------------------------------------------------------------------
(* Values and labels (checked under SpecValue)                             *)

\* the labels native_value derives from a raw value
LabelsOf(raw) ==
    { directions[i] : i \in 1..Len(directions) }
    \cup { RisingRapidlyText, RisingSlowlyText, SteadyText, FallingSlowlyLabel,
           FallingRapidlyText, TrackingText, SynchedText, ScanningText }
    \cup (IF IsStr(raw) THEN { LowerUnderscore(raw) } ELSE {})

\* C30: a read that raises nothing gives the raw value stored under the
\* description's tag in the entity's transmitter record or a label derived
\* from it, and gives None only when that raw value is None or absent.
C30_ValueIsRawOrLabel ==
    ( /\ native # <<>>
      /\ native[3] = "none"
      /\ native[1] \in DOMAIN data.tx )
    => LET raw == Get(ReadFrom, DescriptionOf(native[2]).tag)
       IN  /\ native[4] = raw \/ native[4] \in LabelsOf(raw)
           /\ IsNone(native[4]) => IsNone(raw)

====
